---------------------------- MODULE Spec2Model ----------------------------
(***************************************************************************)
(* DirHash: the concurrent hashing engine of package files.                *)
(*                                                                         *)
(* HashFiles validates the algorithm list, starts min(NumCPU, len(files))  *)
(* hashWorker goroutines, a feeder goroutine that fills and closes the     *)
(* work queue, a closer goroutine that waits for the workers and closes    *)
(* the two result channels, and then drains both channels in a select      *)
(* loop.  Every worker runs calculateAllHashes on the records it pulls:    *)
(* open, one hasher per algorithm, io.Copy through an io.MultiWriter,      *)
(* then one digest-map entry per hasher.                                   *)
(*                                                                         *)
(* Records live in a heap (recs) and are referred to by index, as the Go   *)
(* code refers to them by *File.  The file system is a fixed table of      *)
(* paths; the content of a file is a sequence of chunks, one per Read.     *)
(* The digest functions of crypto/md5, sha1, sha256 and sha512 are         *)
(* represented by a small checksum that is tagged by the algorithm, so     *)
(* that digests of different algorithms and of different contents differ.  *)
(***************************************************************************)
EXTENDS Integers, Sequences, FiniteSets, TLC

(***************************************************************************)
(* Bounds of the model.                                                    *)
(***************************************************************************)
\* longest batch handed to HashFiles
MaxFiles == 2
\* longest algorithm list handed to HashFiles together with a batch of
\* at most one record
MaxAlgos == 2
\* largest value of runtime.NumCPU()
MaxCPU == 2
\* number of chunks of the longest regular file
MaxChunks == 2
\* number of entries of the largest tree EnumerateFiles walks, the root included
MaxEntries == 4

(***************************************************************************)
(* Small helpers.                                                          *)
(***************************************************************************)
SeqsUpTo(S, n) == UNION {[1..k -> S] : k \in 0..n}

Range(s) == {s[i] : i \in 1..Len(s)}

\* Go maps: functions over a finite set of keys
EmptyMap == [k \in {} |-> <<>>]

MapPut(m, k, v) == [x \in (DOMAIN m) \cup {k} |-> IF x = k THEN v ELSE m[x]]

(***************************************************************************)
(* file.go: the algorithm registry.                                        *)
(***************************************************************************)
GetSupportedAlgorithms ==
    << [ID |-> 0, Name |-> "md5"],
       [ID |-> 1, Name |-> "sha1"],
       [ID |-> 2, Name |-> "sha256"],
       [ID |-> 3, Name |-> "sha512"] >>

\* algoNames := make(map[int]string); algoNames[algo.ID] = algo.Name
algoNames ==
    [id \in {GetSupportedAlgorithms[i].ID : i \in 1..Len(GetSupportedAlgorithms)} |->
        (CHOOSE a \in Range(GetSupportedAlgorithms) : a.ID = id).Name]

\* the ids callers may pass: the four supported ones, 999 (used by the
\* tests) and -1 (what StrHashAlgorithmToId gives for an unknown name)
AlgoIds == {0, 1, 2, 3, 999, -1}

(***************************************************************************)
(* HashFiles, "Filter valid algorithms": the two lists built side by side. *)
(***************************************************************************)
\* a filter that lets every requested id through
FilterKeepsAll(algos) == algos

\* a filter that turns the whole list down when one id is unsupported
FilterRejectsOnAny(algos) ==
    IF \E k \in 1..Len(algos) : algos[k] \notin DOMAIN algoNames THEN <<>> ELSE algos

RECURSIVE FilterValidAlgos(_)
FilterValidAlgos(algos) ==
    IF algos = <<>> THEN <<>>
    ELSE IF Head(algos) \in DOMAIN algoNames
         THEN <<Head(algos)>> \o FilterValidAlgos(Tail(algos))
         ELSE FilterValidAlgos(Tail(algos))

\* a name list that takes the names by position in the registry instead of
\* by id: right only for lists that are a prefix of the registry order
FilterAlgoNamesByPosition(algos) ==
    [i \in 1..Len(FilterValidAlgos(algos)) |-> GetSupportedAlgorithms[i].Name]

RECURSIVE FilterAlgoNames(_)
FilterAlgoNames(algos) ==
    IF algos = <<>> THEN <<>>
    ELSE IF Head(algos) \in DOMAIN algoNames
         THEN <<algoNames[Head(algos)]>> \o FilterAlgoNames(Tail(algos))
         ELSE FilterAlgoNames(Tail(algos))

\* a worker count that ignores the batch size
NumWorkersAllCPUs(cpus, n) == cpus

\* numWorkers := runtime.NumCPU(); if numWorkers > len(files) { numWorkers = len(files) }
NumWorkersFor(cpus, n) == IF cpus > n THEN n ELSE cpus

(***************************************************************************)
(* The file system seen by os.Open and by the Reads of io.Copy.            *)
(*   "ok"    a regular file of MaxChunks chunks                            *)
(*   "empty" a regular file of no bytes                                    *)
(*   "noent" a path that cannot be opened                                  *)
(*   "ioerr" a file whose first Read succeeds and whose second Read fails  *)
(***************************************************************************)
Paths == {"ok", "empty", "noent", "ioerr"}

CanOpen(p) == p # "noent"

Content(p) ==
    CASE p = "ok"    -> [i \in 1..MaxChunks |-> i]
      [] p = "empty" -> <<>>
      [] p = "ioerr" -> <<7, 8>>
      [] OTHER       -> <<>>

\* number of chunks a reader of p gets before Read reports an I/O error
\* (-1: never)
FailsAfter(p) == IF p = "ioerr" THEN 1 ELSE -1

\* outcome of the Read at offset off (chunks already read): a chunk, EOF or
\* an error
ReadAt(p, off) ==
    IF FailsAfter(p) = off THEN [kind |-> "err"]
    ELSE IF off < Len(Content(p)) THEN [kind |-> "data", chunk |-> Content(p)[off + 1]]
    ELSE [kind |-> "eof"]

(***************************************************************************)
(* hash.Hash: New, Write, Sum, and fmt.Sprintf("%x", ...).                 *)
(***************************************************************************)
\* first digest byte: distinguishes the four functions
DigestTag(algo) ==
    CASE algo = 0 -> 213
      [] algo = 1 -> 161
      [] algo = 2 -> 178
      [] algo = 3 -> 197

RECURSIVE Checksum(_, _)
Checksum(acc, data) ==
    IF data = <<>> THEN acc
    ELSE Checksum((acc * 31 + Head(data) + 1) % 256, Tail(data))

\* the digest of a byte sequence under algorithm algo, as bytes
Digest(algo, data) == <<DigestTag(algo), Checksum(algo + 1, data)>>

NewHasher(algo) == [algo |-> algo, data |-> <<>>]

HasherWrite(h, chunk) == [h EXCEPT !.data = Append(@, chunk)]

HasherSum(h) == Digest(h.algo, h.data)

LowerHexDigits == <<"0","1","2","3","4","5","6","7","8","9","a","b","c","d","e","f">>

UpperHexDigits == <<"0","1","2","3","4","5","6","7","8","9","A","B","C","D","E","F">>

RECURSIVE HexWith(_, _)
HexWith(digits, bytes) ==
    IF bytes = <<>> THEN <<>>
    ELSE <<digits[(Head(bytes) \div 16) + 1], digits[(Head(bytes) % 16) + 1]>>
         \o HexWith(digits, Tail(bytes))

\* fmt.Sprintf("%X", b)
SprintfUpperX(bytes) == HexWith(UpperHexDigits, bytes)

\* fmt.Sprintf("%x", b): two lowercase hexadecimal digits per byte
SprintfX(bytes) == HexWith(LowerHexDigits, bytes)

(***************************************************************************)
(* calculateAllHashes, its pure parts.                                     *)
(***************************************************************************)
\* "Create hashers for all algorithms": the hashers, or the error of the
\* default case of the switch at the first id that is none of 0..3
\* switch algoID: the package whose New() makes the hasher, or the default
\* case "unsupported algorithm ID"
SelectHasher(algoID) ==
    CASE algoID = 0 -> "md5"
      [] algoID = 1 -> "sha1"
      [] algoID = 2 -> "sha256"
      [] algoID = 3 -> "sha512"
      [] OTHER -> "unsupported"

RECURSIVE MakeHashers(_)
MakeHashers(algorithms) ==
    IF algorithms = <<>> THEN [err |-> "", hashers |-> <<>>]
    ELSE IF SelectHasher(Head(algorithms)) = "unsupported"
         THEN [err |-> "unsupported", hashers |-> <<>>]
         ELSE LET rest == MakeHashers(Tail(algorithms))
              IN  IF rest.err # "" THEN rest
                  ELSE [err |-> "", hashers |-> <<NewHasher(Head(algorithms))>> \o rest.hashers]

\* a writer that feeds the first hasher only
WriteToFirstOnly(hashers, chunk) ==
    [i \in 1..Len(hashers) |->
        IF i = 1 THEN HasherWrite(hashers[i], chunk) ELSE hashers[i]]

\* io.MultiWriter(writers...).Write(chunk): the chunk goes to every hasher
MultiWrite(hashers, chunk) == [i \in 1..Len(hashers) |-> HasherWrite(hashers[i], chunk)]

\* "Extract hash values": file.Hashes[algoNames[i]] = Sprintf("%x", Sum) for
\* i = from..len(hashers), in this order
RECURSIVE ExtractHashes(_, _, _, _)
ExtractHashes(hashes, hashers, names, from) ==
    IF from > Len(hashers) THEN hashes
    ELSE ExtractHashes(MapPut(hashes, names[from], SprintfX(HasherSum(hashers[from]))),
                       hashers, names, from + 1)

(***************************************************************************)
(* State.                                                                  *)
(***************************************************************************)
VARIABLES
    recs,           \* the heap of File records: index -> [Path, Hashes]
    files,          \* HashFiles argument: the batch, a sequence of *File
    hashAlgos,      \* HashFiles argument: the requested algorithm ids
    numCPU,         \* what runtime.NumCPU() returns on this machine
    pc,             \* position of HashFiles
    validAlgos,     \* HashFiles local
    algoNamesList,  \* HashFiles local
    numWorkers,     \* HashFiles local
    spawned,        \* HashFiles local: loop index i of "Start workers"
    fileChan,       \* chan *File: [buf, closed, cap]
    resultChan,     \* chan *File: [buf, closed, cap]
    errorChan,      \* chan error: [buf, closed, cap]
    resultNil,      \* HashFiles has set its variable resultChan to nil
    errorNil,       \* HashFiles has set its variable errorChan to nil
    wg,             \* sync.WaitGroup counter
    result,         \* HashFiles local: []*File
    errors,         \* HashFiles local: []error
    ret,            \* what HashFiles returned: [files, err]
    feeder,         \* the "Send files to workers" goroutine: [pc, next]
    closer,         \* the "Collect results" goroutine: its position
    worker,         \* hashWorker goroutines: id -> [pc, file, hashers, off, open, err]
    delivered,      \* history: record index -> times a worker received it
    opens,          \* history: record index -> times os.Open was called on it
    reads,          \* history: record index -> chunk -> times Read returned it
    mainPc,         \* position of main of dirhash.go
    stdout,         \* the rows main has printed to the terminal
    outFile,        \* the rows main has written to the output file
    walk,           \* EnumerateFiles: the tree, the position of the walk, the slice
    parse,          \* ParseArgs: the raw arguments, the index, the Args built
    yara            \* package yara: the hashed files given, the rule or the error

vars == << recs, files, hashAlgos, numCPU, pc, validAlgos, algoNamesList, numWorkers,
           spawned, fileChan, resultChan, errorChan, resultNil, errorNil, wg,
           result, errors, ret, feeder, closer, worker, delivered, opens, reads,
           mainPc, stdout, outFile, walk, parse, yara >>

\* what main and init own besides the call of HashFiles
cliVars == << mainPc, stdout, outFile, walk, parse, yara >>

Workers == 1..MaxCPU

NilError == [kind |-> "nil", path |-> ""]

\* fmt.Errorf("failed to open file %s: %w", file.Path, err) and its siblings
Errorf(kind, path) == [kind |-> kind, path |-> path]

NoFile == 0

\* make(chan T, n)
\* a channel that holds one item whatever the batch
MakeChanOfOne(n) ==
    [buf |-> <<>>, closed |-> FALSE, cap |-> 1, closes |-> 0, sendOnClosed |-> FALSE]

MakeChan(n) ==
    [buf |-> <<>>, closed |-> FALSE, cap |-> n, closes |-> 0, sendOnClosed |-> FALSE]

NilChan ==
    [buf |-> <<>>, closed |-> FALSE, cap |-> -1, closes |-> 0, sendOnClosed |-> FALSE]

IdleWorker == [pc |-> "unspawned", file |-> NoFile, hashers |-> <<>>, off |-> 0,
               handles |-> 0, err |-> NilError]

\* os.FileInfo of the entry at a path: its base name, its size (in chunks)
\* and its modification time
FileInfo(path, isDir) ==
    [Name |-> path, Size |-> Len(Content(path)), ModTime |-> <<"mtime", path>>,
     IsDir |-> isDir]

\* NewFile: the metadata of the entry and an initialised, empty digest map
NewFile(path, fileName, fileInfo) ==
    [FileName |-> fileName, Path |-> path, Size |-> fileInfo.Size,
     ModTime |-> fileInfo.ModTime, Hashes |-> EmptyMap, HashesNil |-> FALSE]

\* &File{FileName: ..., Path: ...}: a record made without NewFile, its
\* Hashes left at the zero value of a map, nil
FileLiteral(path) ==
    [FileName |-> path, Path |-> path, Size |-> 0, ModTime |-> <<"mtime", "">>,
     Hashes |-> EmptyMap, HashesNil |-> TRUE]

\* the record enumeration hands over for the file at a path
EnumeratedFile(path) == NewFile(path, FileInfo(path, FALSE).Name, FileInfo(path, FALSE))

\* EnumerateFiles and ParseArgs when they are not the subject
NoWalk == [pc |-> "none"]

NoParse == [pc |-> "none"]

\* package yara before it is called
NoYara == [pc |-> "none"]

\* algorithm lists tried with batches of more than one record
BatchAlgoLists == {<<>>, <<999, 0>>, <<2, 2>>}

Init ==
    /\ \E n \in 0..MaxFiles :
         \E paths \in [1..n -> Paths] :
            /\ recs = [i \in 1..n |-> EnumeratedFile(paths[i])]
            /\ files = [i \in 1..n |-> i]
            /\ \/ /\ n <= 1
                  /\ hashAlgos \in SeqsUpTo(AlgoIds, MaxAlgos)
               \/ hashAlgos \in BatchAlgoLists
            /\ delivered = [i \in 1..n |-> 0]
            /\ opens = [i \in 1..n |-> 0]
            /\ reads = [i \in 1..n |-> [c \in 1..Len(Content(paths[i])) |-> 0]]
    /\ numCPU \in 1..MaxCPU
    /\ pc = "entry"
    /\ validAlgos = <<>>
    /\ algoNamesList = <<>>
    /\ numWorkers = 0
    /\ spawned = 0
    /\ fileChan = NilChan
    /\ resultChan = NilChan
    /\ errorChan = NilChan
    /\ resultNil = FALSE
    /\ errorNil = FALSE
    /\ wg = 0
    /\ result = <<>>
    /\ errors = <<>>
    /\ ret = [files |-> <<>>, err |-> NilError]
    /\ feeder = [pc |-> "unspawned", next |-> 1]
    /\ closer = "unspawned"
    /\ worker = [w \in Workers |-> IdleWorker]
    /\ mainPc = "HashFiles"
    /\ stdout = <<>>
    /\ outFile = <<>>
    /\ walk = NoWalk
    /\ parse = NoParse
    /\ yara = NoYara

(***************************************************************************)
(* Channel and WaitGroup primitives.                                       *)
(***************************************************************************)
\* a receive is ready when an item is buffered or the channel is closed
CanRecv(ch) == ch.buf # <<>> \/ ch.closed

\* a send on a buffered channel proceeds while the buffer has room
CanSend(ch) == ch.closed \/ Len(ch.buf) < ch.cap

\* ch <- v; on a closed channel the runtime panics
ChanSend(ch, v) ==
    IF ch.closed
    THEN [ch EXCEPT !.sendOnClosed = TRUE]
    ELSE [ch EXCEPT !.buf = Append(@, v)]

\* a receive that leaves the item in the queue for the next receiver
ChanPeekOnly(ch) == ch

\* the channel after a receive has taken its first item
ChanAfterRecv(ch) == [ch EXCEPT !.buf = Tail(@)]

\* a close that was forgotten
ChanLeftOpen(ch) == ch

\* close(ch); a second close panics
ChanClose(ch) == [ch EXCEPT !.closed = TRUE, !.closes = @ + 1]

\* a Wait that returns although workers are still running
WaitReturnsAtOnce(counter) == TRUE

\* wg.Wait() returns when the counter is zero
WaitReturns(counter) == counter = 0

(***************************************************************************)
(* HashFiles.                                                              *)
(***************************************************************************)
\* an empty-batch return placed after the validation of the algorithm list
ReturnEmptyAfterValidation ==
    /\ pc = "entry"
    /\ Len(files) = 0
    /\ ret' = [files |-> files,
               err |-> IF Len(FilterValidAlgos(hashAlgos)) = 0
                       THEN Errorf("novalid", "") ELSE NilError]
    /\ pc' = "returned"
    /\ UNCHANGED << recs, files, hashAlgos, numCPU, validAlgos, algoNamesList, numWorkers,
                    spawned, fileChan, resultChan, errorChan, resultNil, errorNil,
                    wg, result, errors, feeder, closer, worker, delivered, opens,
                    reads >>
    /\ UNCHANGED cliVars

\* if len(files) == 0 { return files, nil }
ReturnEmpty ==
    /\ pc = "entry"
    /\ Len(files) = 0
    /\ ret' = [files |-> files, err |-> NilError]
    /\ pc' = "returned"
    /\ UNCHANGED << recs, files, hashAlgos, numCPU, validAlgos, algoNamesList, numWorkers,
                    spawned, fileChan, resultChan, errorChan, resultNil, errorNil,
                    wg, result, errors, feeder, closer, worker, delivered, opens,
                    reads >>
    /\ UNCHANGED cliVars

\* if len(validAlgos) == 0 { return files, fmt.Errorf("no valid hash algorithms provided") }
ReturnNoValidAlgos ==
    /\ pc = "entry"
    /\ Len(files) # 0
    /\ Len(FilterValidAlgos(hashAlgos)) = 0
    /\ validAlgos' = FilterValidAlgos(hashAlgos)
    /\ algoNamesList' = FilterAlgoNames(hashAlgos)
    /\ ret' = [files |-> files, err |-> Errorf("novalid", "")]
    /\ pc' = "returned"
    /\ UNCHANGED << recs, files, hashAlgos, numCPU, numWorkers, spawned, fileChan,
                    resultChan, errorChan, resultNil, errorNil, wg, result, errors,
                    feeder, closer, worker, delivered, opens, reads >>
    /\ UNCHANGED cliVars

\* validation passed: numWorkers and the three channels
Setup ==
    /\ pc = "entry"
    /\ Len(files) # 0
    /\ Len(FilterValidAlgos(hashAlgos)) # 0
    /\ validAlgos' = FilterValidAlgos(hashAlgos)
    /\ algoNamesList' = FilterAlgoNames(hashAlgos)
    /\ numWorkers' = NumWorkersFor(numCPU, Len(files))
    /\ fileChan' = MakeChan(Len(files))
    /\ resultChan' = MakeChan(Len(files))
    /\ errorChan' = MakeChan(Len(files))
    /\ pc' = "spawn"
    /\ UNCHANGED << recs, files, hashAlgos, numCPU, spawned, resultNil, errorNil, wg,
                    result, errors, ret, feeder, closer, worker, delivered, opens,
                    reads >>
    /\ UNCHANGED cliVars

\* for i := 0; i < numWorkers; i++ { wg.Add(1); go hashWorker(...) }
SpawnWorker ==
    /\ pc = "spawn"
    /\ spawned < numWorkers
    /\ wg' = wg + 1
    /\ worker' = [worker EXCEPT ![spawned + 1].pc = "range"]
    /\ spawned' = spawned + 1
    /\ UNCHANGED << recs, files, hashAlgos, numCPU, pc, validAlgos, algoNamesList,
                    numWorkers, fileChan, resultChan, errorChan, resultNil,
                    errorNil, result, errors, ret, feeder, closer, delivered,
                    opens, reads >>
    /\ UNCHANGED cliVars

\* go func() { for _, file := range files { fileChan <- file }; close(fileChan) }()
StartFeeder ==
    /\ pc = "spawn"
    /\ spawned >= numWorkers
    /\ feeder' = [feeder EXCEPT !.pc = "send"]
    /\ pc' = "goCloser"
    /\ UNCHANGED << recs, files, hashAlgos, numCPU, validAlgos, algoNamesList, numWorkers,
                    spawned, fileChan, resultChan, errorChan, resultNil, errorNil,
                    wg, result, errors, ret, closer, worker, delivered, opens,
                    reads >>
    /\ UNCHANGED cliVars

\* go func() { wg.Wait(); close(resultChan); close(errorChan) }()
StartCloser ==
    /\ pc = "goCloser"
    /\ closer' = "wait"
    /\ pc' = "select"
    /\ UNCHANGED << recs, files, hashAlgos, numCPU, validAlgos, algoNamesList, numWorkers,
                    spawned, fileChan, resultChan, errorChan, resultNil, errorNil,
                    wg, result, errors, ret, feeder, worker, delivered, opens,
                    reads >>
    /\ UNCHANGED cliVars

\* a loop that stops as soon as one of the two channels is exhausted
LoopExitsOnEither(rNil, eNil) == rNil \/ eNil

\* if resultChan == nil && errorChan == nil { break }
LoopExits(rNil, eNil) == rNil /\ eNil

\* case file, ok := <-resultChan
SelectResult ==
    /\ pc = "select"
    /\ ~resultNil
    /\ CanRecv(resultChan)
    /\ IF resultChan.buf # <<>>
       THEN /\ result' = Append(result, Head(resultChan.buf))
            /\ resultChan' = ChanAfterRecv(resultChan)
            /\ resultNil' = FALSE
       ELSE /\ resultNil' = TRUE
            /\ UNCHANGED << result, resultChan >>
    /\ pc' = IF LoopExits(resultNil', errorNil) THEN "return" ELSE "select"
    /\ UNCHANGED << recs, files, hashAlgos, numCPU, validAlgos, algoNamesList, numWorkers,
                    spawned, fileChan, errorChan, errorNil, wg, errors, ret,
                    feeder, closer, worker, delivered, opens, reads >>
    /\ UNCHANGED cliVars

\* case err, ok := <-errorChan
SelectError ==
    /\ pc = "select"
    /\ ~errorNil
    /\ CanRecv(errorChan)
    /\ IF errorChan.buf # <<>>
       THEN /\ errors' = IF Head(errorChan.buf) # NilError
                         THEN Append(errors, Head(errorChan.buf))
                         ELSE errors
            /\ errorChan' = ChanAfterRecv(errorChan)
            /\ errorNil' = FALSE
       ELSE /\ errorNil' = TRUE
            /\ UNCHANGED << errors, errorChan >>
    /\ pc' = IF LoopExits(resultNil, errorNil') THEN "return" ELSE "select"
    /\ UNCHANGED << recs, files, hashAlgos, numCPU, validAlgos, algoNamesList, numWorkers,
                    spawned, fileChan, resultChan, resultNil, wg, result, ret,
                    feeder, closer, worker, delivered, opens, reads >>
    /\ UNCHANGED cliVars

\* an error pick that takes the last error collected
LastError(errs) == IF Len(errs) > 0 THEN errs[Len(errs)] ELSE NilError

\* if len(errors) > 0 { return result, errors[0] }
RepresentativeError(errs) == IF Len(errs) > 0 THEN errs[1] ELSE NilError

\* return result, errors[0]  /  return result, nil
Return ==
    /\ pc = "return"
    /\ ret' = [files |-> result, err |-> RepresentativeError(errors)]
    /\ pc' = "returned"
    /\ UNCHANGED << recs, files, hashAlgos, numCPU, validAlgos, algoNamesList, numWorkers,
                    spawned, fileChan, resultChan, errorChan, resultNil, errorNil,
                    wg, result, errors, feeder, closer, worker, delivered, opens,
                    reads >>
    /\ UNCHANGED cliVars

(***************************************************************************)
(* The feeder goroutine.                                                   *)
(***************************************************************************)
\* a feeder that closes the queue while records are still to be sent
RangeOverAtOnce(next, n) == TRUE

\* for _, file := range files: the loop is over
RangeOver(next, n) == next > n

\* fileChan <- file
FeederSend ==
    /\ feeder.pc = "send"
    /\ feeder.next <= Len(files)
    /\ CanSend(fileChan)
    /\ fileChan' = ChanSend(fileChan, files[feeder.next])
    /\ feeder' = [feeder EXCEPT !.next = @ + 1]
    /\ UNCHANGED << recs, files, hashAlgos, numCPU, pc, validAlgos, algoNamesList,
                    numWorkers, spawned, resultChan, errorChan, resultNil,
                    errorNil, wg, result, errors, ret, closer, worker, delivered,
                    opens, reads >>
    /\ UNCHANGED cliVars

\* close(fileChan)
FeederClose ==
    /\ feeder.pc = "send"
    /\ RangeOver(feeder.next, Len(files))
    /\ fileChan' = ChanClose(fileChan)
    /\ feeder' = [feeder EXCEPT !.pc = "done"]
    /\ UNCHANGED << recs, files, hashAlgos, numCPU, pc, validAlgos, algoNamesList,
                    numWorkers, spawned, resultChan, errorChan, resultNil,
                    errorNil, wg, result, errors, ret, closer, worker, delivered,
                    opens, reads >>
    /\ UNCHANGED cliVars

(***************************************************************************)
(* The closer goroutine.                                                   *)
(***************************************************************************)
\* wg.Wait()
CloserWait ==
    /\ closer = "wait"
    /\ WaitReturns(wg)
    /\ closer' = "closeResult"
    /\ UNCHANGED << recs, files, hashAlgos, numCPU, pc, validAlgos, algoNamesList,
                    numWorkers, spawned, fileChan, resultChan, errorChan,
                    resultNil, errorNil, wg, result, errors, ret, feeder, worker,
                    delivered, opens, reads >>
    /\ UNCHANGED cliVars

\* close(resultChan)
CloseResultChan ==
    /\ closer = "closeResult"
    /\ resultChan' = ChanClose(resultChan)
    /\ closer' = "closeError"
    /\ UNCHANGED << recs, files, hashAlgos, numCPU, pc, validAlgos, algoNamesList,
                    numWorkers, spawned, fileChan, errorChan, resultNil, errorNil,
                    wg, result, errors, ret, feeder, worker, delivered, opens,
                    reads >>
    /\ UNCHANGED cliVars

\* close(errorChan)
CloseErrorChan ==
    /\ closer = "closeError"
    /\ errorChan' = ChanClose(errorChan)
    /\ closer' = "done"
    /\ UNCHANGED << recs, files, hashAlgos, numCPU, pc, validAlgos, algoNamesList,
                    numWorkers, spawned, fileChan, resultChan, resultNil,
                    errorNil, wg, result, errors, ret, feeder, worker, delivered,
                    opens, reads >>
    /\ UNCHANGED cliVars

(***************************************************************************)
(* hashWorker and calculateAllHashes.                                      *)
(***************************************************************************)
WorkerUnchanged ==
    UNCHANGED << files, hashAlgos, numCPU, pc, validAlgos, algoNamesList, numWorkers,
                 spawned, resultNil, errorNil, result, errors, ret, feeder,
                 closer, mainPc, stdout, outFile, walk, parse, yara >>

\* for file := range fileChan: an item is taken from the queue
WorkerRecv(w) ==
    /\ worker[w].pc = "range"
    /\ fileChan.buf # <<>>
    /\ worker' = [worker EXCEPT ![w].file = Head(fileChan.buf), ![w].pc = "open"]
    /\ fileChan' = ChanAfterRecv(fileChan)
    /\ delivered' = [delivered EXCEPT ![Head(fileChan.buf)] = @ + 1]
    /\ WorkerUnchanged
    /\ UNCHANGED << recs, resultChan, errorChan, wg, opens, reads >>

\* for file := range fileChan: the queue is closed and empty, the loop ends
WorkerLeaveLoop(w) ==
    /\ worker[w].pc = "range"
    /\ fileChan.buf = <<>>
    /\ fileChan.closed
    /\ worker' = [worker EXCEPT ![w].pc = "deferred"]
    /\ WorkerUnchanged
    /\ UNCHANGED << recs, fileChan, resultChan, errorChan, wg, delivered, opens,
                    reads >>

\* defer wg.Done()
WorkerDone(w) ==
    /\ worker[w].pc = "deferred"
    /\ wg' = wg - 1
    /\ worker' = [worker EXCEPT ![w].pc = "done"]
    /\ WorkerUnchanged
    /\ UNCHANGED << recs, fileChan, resultChan, errorChan, delivered, opens,
                    reads >>

\* a Close placed at the end of calculateAllHashes instead of deferred: the
\* early returns skip it
CloseOnSuccessOnly(handles, failed) == IF failed THEN handles ELSE handles - 1

\* defer f.Close(): the handle is closed when calculateAllHashes returns,
\* with an error or without
CloseOnReturn(handles, failed) == handles - 1

\* calculateAllHashes: os.Open, defer f.Close(), and the hashers
WorkerOpen(w) ==
    /\ worker[w].pc = "open"
    /\ LET f == worker[w].file
           p == recs[f].Path
           made == MakeHashers(validAlgos)
       IN  /\ opens' = [opens EXCEPT ![f] = @ + 1]
           /\ IF ~CanOpen(p)
              THEN worker' = [worker EXCEPT ![w].err = Errorf("open", p),
                                            ![w].pc = "sendErr"]
              ELSE IF made.err # ""
                   THEN worker' = [worker EXCEPT ![w].err = Errorf(made.err, ""),
                                                 ![w].handles = CloseOnReturn(@ + 1, TRUE),
                                                 ![w].pc = "sendErr"]
                   ELSE worker' = [worker EXCEPT ![w].hashers = made.hashers,
                                                 ![w].off = 0,
                                                 ![w].handles = @ + 1,
                                                 ![w].pc = "copy"]
    /\ WorkerUnchanged
    /\ UNCHANGED << recs, fileChan, resultChan, errorChan, wg, delivered, reads >>

\* a reader that does not advance
SameOffset(off) == off

\* the offset after a chunk has been read
NextOffset(off) == off + 1

\* a check of io.Copy's result that lets every error pass
CopyNeverFails(r) == FALSE

\* if _, err := io.Copy(multiWriter, f); err != nil: io.Copy reports every
\* Read error but io.EOF
CopyFailed(r) == r.kind = "err"

\* io.Copy(multiWriter, f): one Read, and the Write of what it returned;
\* a Read that returns no data ends the copy
WorkerRead(w) ==
    /\ worker[w].pc = "copy"
    /\ LET f == worker[w].file
           p == recs[f].Path
           r == ReadAt(p, worker[w].off)
       IN  IF r.kind = "data"
           THEN /\ worker' = [worker EXCEPT
                                  ![w].hashers = MultiWrite(@, r.chunk),
                                  ![w].off = NextOffset(@)]
                /\ reads' = [reads EXCEPT ![f][worker[w].off + 1] = @ + 1]
           ELSE /\ IF CopyFailed(r)
                   THEN worker' = [worker EXCEPT ![w].err = Errorf("read", p),
                                                 ![w].handles = CloseOnReturn(@, TRUE),
                                                 ![w].pc = "sendErr"]
                   ELSE worker' = [worker EXCEPT ![w].pc = "extract"]
                /\ UNCHANGED reads
    /\ WorkerUnchanged
    /\ UNCHANGED << recs, fileChan, resultChan, errorChan, wg, delivered, opens >>

\* a worker that writes the digests to the first record of the batch
FirstRecord(w) == 1

\* file, the record calculateAllHashes was called with
HeldRecord(w) == worker[w].file

\* "Extract hash values", return nil (and the deferred f.Close())
\* an assignment to an entry of a nil map panics; the deferred f.Close()
\* runs, and the runtime ends the process with all its goroutines
WorkerExtract(w) ==
    /\ worker[w].pc = "extract"
    /\ IF recs[HeldRecord(w)].HashesNil /\ Len(worker[w].hashers) > 0
       THEN /\ worker' = [v \in Workers |->
                            IF v = w
                            THEN [worker[v] EXCEPT !.handles = CloseOnReturn(@, TRUE),
                                                   !.pc = "panicked"]
                            ELSE [worker[v] EXCEPT !.pc = "panicked"]]
            /\ pc' = "panicked"
            /\ feeder' = [feeder EXCEPT !.pc = "panicked"]
            /\ closer' = "panicked"
            /\ mainPc' = "panic"
            /\ UNCHANGED recs
       ELSE /\ recs' = [recs EXCEPT ![HeldRecord(w)].Hashes =
                           ExtractHashes(@, worker[w].hashers, algoNamesList, 1)]
            /\ worker' = [worker EXCEPT ![w].handles = CloseOnReturn(@, FALSE),
                                        ![w].pc = "sendRes"]
            /\ UNCHANGED << pc, feeder, closer, mainPc >>
    /\ UNCHANGED << files, hashAlgos, numCPU, validAlgos, algoNamesList, numWorkers,
                    spawned, resultNil, errorNil, result, errors, ret, stdout,
                    outFile, walk, parse, yara >>
    /\ UNCHANGED << fileChan, resultChan, errorChan, wg, delivered, opens, reads >>

\* a worker that gives up after its first failure
ReturnAfterError == "deferred"

\* continue: back to the head of the range loop
ContinueAfterError == "range"

\* errorChan <- err; continue
WorkerSendErr(w) ==
    /\ worker[w].pc = "sendErr"
    /\ CanSend(errorChan)
    /\ errorChan' = ChanSend(errorChan, worker[w].err)
    /\ worker' = [worker EXCEPT ![w].file = NoFile, ![w].hashers = <<>>,
                                ![w].off = 0, ![w].err = NilError,
                                ![w].pc = ContinueAfterError]
    /\ WorkerUnchanged
    /\ UNCHANGED << recs, fileChan, resultChan, wg, delivered, opens, reads >>

\* resultChan <- file
WorkerSendRes(w) ==
    /\ worker[w].pc = "sendRes"
    /\ CanSend(resultChan)
    /\ resultChan' = ChanSend(resultChan, worker[w].file)
    /\ worker' = [worker EXCEPT ![w].file = NoFile, ![w].hashers = <<>>,
                                ![w].off = 0, ![w].pc = "range"]
    /\ WorkerUnchanged
    /\ UNCHANGED << recs, fileChan, errorChan, wg, delivered, opens, reads >>

(***************************************************************************)
(* Specifications.                                                         *)
(***************************************************************************)
(***************************************************************************)
(* Output rendering: WriteOutput and its siblings of package files, and    *)
(* OutputFiles and its siblings of package cmdline.  A line is a message,  *)
(* a header or a row; a row has the path of its record and its hash        *)
(* columns.                                                                *)
(***************************************************************************)
\* the names of the hash types in the order sort.Strings puts them
SortedHashTypes == <<"md5", "sha1", "sha256", "sha512">>

\* sort.Strings(hashTypes) for the keys collected from digest maps
RECURSIVE SortStringsFrom(_, _)
SortStringsFrom(keys, k) ==
    IF k > Len(SortedHashTypes) THEN <<>>
    ELSE (IF SortedHashTypes[k] \in keys THEN <<SortedHashTypes[k]>> ELSE <<>>)
         \o SortStringsFrom(keys, k + 1)

SortStrings(keys) == SortStringsFrom(keys, 1)

\* the placeholders for a missing hash: "N/A" on the terminal, "" in files
NotAvailable == <<"N", "/", "A">>

EmptyString == <<>>

\* getHashOrNA / getHashOrEmpty
GetHashOr(hashes, hashType, missing) ==
    IF hashType \in DOMAIN hashes THEN hashes[hashType] ELSE missing

HeaderLine(format) == [kind |-> "header", format |-> format]

NoFilesLine == [kind |-> "message", text |-> "No files to display"]

Row(f, cols) == [kind |-> "row", Path |-> f.Path, Cols |-> cols]

\* standard format: a row for each hash type of the record, in sorted
\* order, or one row of N/A when the record has no hash
StandardRowsOf(f) ==
    IF DOMAIN f.Hashes = {}
    THEN << Row(f, <<[HashType |-> "N/A", Hash |-> NotAvailable]>>) >>
    ELSE LET hashTypes == SortStrings(DOMAIN f.Hashes)
         IN  [k \in 1..Len(hashTypes) |->
                 Row(f, <<[HashType |-> hashTypes[k], Hash |-> f.Hashes[hashTypes[k]]]>>)]

\* for _, f := range files: the rows of the records in the order of the slice
RECURSIVE StandardRows(_, _)
StandardRows(heap, fileList) ==
    IF fileList = <<>> THEN <<>>
    ELSE StandardRowsOf(heap[Head(fileList)]) \o StandardRows(heap, Tail(fileList))

\* OutputFilesCondensed: one row per record, "type:hash" for each of its
\* hash types in sorted order
TerminalCondensedRow(f) ==
    IF DOMAIN f.Hashes = {}
    THEN Row(f, <<[HashType |-> "N/A", Hash |-> NotAvailable]>>)
    ELSE LET hashTypes == SortStrings(DOMAIN f.Hashes)
         IN  Row(f, [k \in 1..Len(hashTypes) |->
                        [HashType |-> hashTypes[k], Hash |-> f.Hashes[hashTypes[k]]]])

\* WriteOutputCondensed: one row per record, a column for each hash type
\* found in any record
FileCondensedRow(f, hashTypes) ==
    Row(f, [k \in 1..Len(hashTypes) |->
               [HashType |-> hashTypes[k],
                Hash |-> GetHashOr(f.Hashes, hashTypes[k], EmptyString)]])

\* OutputFilesIOC / WriteOutputForIOC: one row per record, the four hash
\* columns in the fixed order md5, sha1, sha256, sha512
IOCRow(f, missing) ==
    Row(f, << [HashType |-> "md5",    Hash |-> GetHashOr(f.Hashes, "md5", missing)],
              [HashType |-> "sha1",   Hash |-> GetHashOr(f.Hashes, "sha1", missing)],
              [HashType |-> "sha256", Hash |-> GetHashOr(f.Hashes, "sha256", missing)],
              [HashType |-> "sha512", Hash |-> GetHashOr(f.Hashes, "sha512", missing)] >>)

\* the four paths of the model in the order Go compares strings
PathsInOrder == <<"empty", "ioerr", "noent", "ok">>

PathLess(p, q) ==
    \E i, j \in 1..Len(PathsInOrder) : PathsInOrder[i] = p /\ PathsInOrder[j] = q /\ i < j

OutputFiles(heap, fileList) ==
    IF Len(fileList) = 0 THEN <<NoFilesLine>>
    ELSE <<HeaderLine("standard")>> \o StandardRows(heap, fileList)

OutputFilesCondensed(heap, fileList) ==
    IF Len(fileList) = 0 THEN <<NoFilesLine>>
    ELSE <<HeaderLine("condensed")>>
         \o [k \in 1..Len(fileList) |-> TerminalCondensedRow(heap[fileList[k]])]

OutputFilesIOC(heap, fileList) ==
    IF Len(fileList) = 0 THEN <<NoFilesLine>>
    ELSE <<HeaderLine("ioc")>>
         \o [k \in 1..Len(fileList) |-> IOCRow(heap[fileList[k]], NotAvailable)]

WriteOutput(heap, fileList) ==
    <<HeaderLine("standard")>> \o StandardRows(heap, fileList)

WriteOutputCondensed(heap, fileList) ==
    LET hashTypes == SortStrings(UNION {DOMAIN heap[fileList[k]].Hashes : k \in 1..Len(fileList)})
    IN  <<HeaderLine("condensed")>>
        \o [k \in 1..Len(fileList) |-> FileCondensedRow(heap[fileList[k]], hashTypes)]

WriteOutputForIOC(heap, fileList) ==
    <<HeaderLine("ioc")>>
    \o [k \in 1..Len(fileList) |-> IOCRow(heap[fileList[k]], EmptyString)]

(***************************************************************************)
(* main of dirhash.go, from the return of HashFiles on.                    *)
(***************************************************************************)
OutputFormats == {"standard", "condensed", "ioc"}

\* arguments.HashAlgorithmId as ParseArgs builds it: md5 by default, else
\* the id of every -a value in command-line order, each one of 0..3
ParseArgsCanGive(algos) ==
    /\ algos # <<>>
    /\ \A k \in 1..Len(algos) : algos[k] \in 0..3

\* the batch as EnumerateFiles builds it: filepath.Walk visits the files in
\* lexical order, each once
WalkOrder(heap, fileList) ==
    \A i, j \in 1..Len(fileList) :
        i < j => PathLess(heap[fileList[i]].Path, heap[fileList[j]].Path)

\* the call of HashFiles is one main can have made
CalledFromMain == ParseArgsCanGive(hashAlgos) /\ WalkOrder(recs, files)

hashFilesVars ==
    << recs, files, hashAlgos, numCPU, pc, validAlgos, algoNamesList, numWorkers,
       spawned, fileChan, resultChan, errorChan, resultNil, errorNil, wg,
       result, errors, ret, feeder, closer, worker, delivered, opens, reads >>

\* hashedFiles, err := files.HashFiles(...)
\* if err != nil { log.Fatalf("Error hashing files: %v", err) }
MainFatalf ==
    /\ mainPc = "HashFiles"
    /\ pc = "returned"
    /\ CalledFromMain
    /\ ret.err # NilError
    /\ mainPc' = "FatalfHashing"
    /\ UNCHANGED << stdout, outFile, walk, parse, yara >>
    /\ UNCHANGED hashFilesVars

\* the terminal output, then the file output, in the format asked for;
\* ParseArgs leaves at least one of the two switched on, and os.Create of
\* the output file may fail: log.Fatalf("Error writing files ...")
MainOutput ==
    /\ mainPc = "HashFiles"
    /\ pc = "returned"
    /\ CalledFromMain
    /\ ret.err = NilError
    /\ \E format \in OutputFormats, OutputToTerminal, WriteToFile, createFails \in BOOLEAN :
          /\ OutputToTerminal \/ WriteToFile
          /\ createFails => WriteToFile
          /\ stdout' = IF ~ OutputToTerminal THEN <<>>
                       ELSE CASE format = "condensed" -> OutputFilesCondensed(recs, ret.files)
                              [] format = "ioc"       -> OutputFilesIOC(recs, ret.files)
                              [] OTHER                -> OutputFiles(recs, ret.files)
          /\ outFile' = IF ~ WriteToFile \/ createFails THEN <<>>
                        ELSE CASE format = "condensed" -> WriteOutputCondensed(recs, ret.files)
                               [] format = "ioc"       -> WriteOutputForIOC(recs, ret.files)
                               [] OTHER                -> WriteOutput(recs, ret.files)
          /\ mainPc' = IF WriteToFile /\ createFails THEN "FatalfWriting" ELSE "exit"
    /\ UNCHANGED << walk, parse, yara >>
    /\ UNCHANGED hashFilesVars

DirhashNext == MainFatalf \/ MainOutput

MainNext ==
    \/ ReturnEmpty
    \/ ReturnNoValidAlgos
    \/ Setup
    \/ SpawnWorker
    \/ StartFeeder
    \/ StartCloser
    \/ SelectResult
    \/ SelectError
    \/ Return

FeederNext == FeederSend \/ FeederClose

CloserNext == CloserWait \/ CloseResultChan \/ CloseErrorChan

WorkerNext(w) ==
    \/ WorkerRecv(w)
    \/ WorkerLeaveLoop(w)
    \/ WorkerDone(w)
    \/ WorkerOpen(w)
    \/ WorkerRead(w)
    \/ WorkerExtract(w)
    \/ WorkerSendErr(w)
    \/ WorkerSendRes(w)

Next ==
    \/ MainNext
    \/ FeederNext
    \/ CloserNext
    \/ \E w \in Workers : WorkerNext(w)
    \/ DirhashNext

Spec == Init /\ [][Next]_vars

\* algorithm lists tried with records made without NewFile
LiteralAlgoLists == {<<>>, <<0>>, <<999, 2>>}

\* HashFiles called as its tests call it, with records of their own
\* making: each is made by NewFile or is a literal with a nil Hashes
LiteralInit ==
    /\ \E n \in 0..MaxFiles :
         \E paths \in [1..n -> Paths], literal \in [1..n -> BOOLEAN] :
            /\ recs = [i \in 1..n |-> IF literal[i] THEN FileLiteral(paths[i])
                                                   ELSE EnumeratedFile(paths[i])]
            /\ files = [i \in 1..n |-> i]
            /\ hashAlgos \in LiteralAlgoLists
            /\ delivered = [i \in 1..n |-> 0]
            /\ opens = [i \in 1..n |-> 0]
            /\ reads = [i \in 1..n |-> [c \in 1..Len(Content(paths[i])) |-> 0]]
    /\ numCPU \in 1..MaxCPU
    /\ pc = "entry"
    /\ validAlgos = <<>>
    /\ algoNamesList = <<>>
    /\ numWorkers = 0
    /\ spawned = 0
    /\ fileChan = NilChan
    /\ resultChan = NilChan
    /\ errorChan = NilChan
    /\ resultNil = FALSE
    /\ errorNil = FALSE
    /\ wg = 0
    /\ result = <<>>
    /\ errors = <<>>
    /\ ret = [files |-> <<>>, err |-> NilError]
    /\ feeder = [pc |-> "unspawned", next |-> 1]
    /\ closer = "unspawned"
    /\ worker = [w \in Workers |-> IdleWorker]
    /\ mainPc = "HashFiles"
    /\ stdout = <<>>
    /\ outFile = <<>>
    /\ walk = NoWalk
    /\ parse = NoParse
    /\ yara = NoYara

LiteralSpec == LiteralInit /\ [][Next]_vars

\* the Go scheduler runs every goroutine that can take a step
Fairness ==
    /\ WF_vars(MainNext)
    /\ WF_vars(FeederNext)
    /\ WF_vars(CloserNext)
    /\ \A w \in Workers : WF_vars(WorkerNext(w))

FairSpec == Init /\ [][Next]_vars /\ Fairness

(***************************************************************************)
(* EnumerateFiles.  The tree under the root is given as the list of its    *)
(* entries in the order filepath.Walk visits them (lexical, parents before *)
(* children), each with its depth and its kind:                            *)
(*   "file"     a regular file                                             *)
(*   "symlink"  an entry that is neither a regular file nor a directory    *)
(*              (Walk uses Lstat and does not follow links)                *)
(*   "dir"      a directory that can be read                               *)
(*   "dirErr"   a directory whose names cannot be read                     *)
(*   "lstatErr" an entry Lstat fails on; as the root: a directory that     *)
(*              does not exist                                             *)
(***************************************************************************)
EntryKinds == {"file", "symlink", "dir", "dirErr", "lstatErr"}

\* the paths of the entries, in walk order
EntryPaths == <<".", "empty", "ioerr", "noent", "ok", "zz", "zzz">>

IsDirKind(kind) == kind \in {"dir", "dirErr"}

\* the trees of n entries: the root at depth 0, every other entry below a
\* directory
RECURSIVE TreesOfLen(_)
TreesOfLen(n) ==
    IF n = 1 THEN {<<[depth |-> 0, kind |-> k]>> : k \in EntryKinds}
    ELSE UNION {
            LET last == t[Len(t)]
                deepest == IF IsDirKind(last.kind) THEN last.depth + 1 ELSE last.depth
            IN  {Append(t, [depth |-> d, kind |-> k]) : d \in 1..deepest, k \in EntryKinds}
            : t \in TreesOfLen(n - 1)}

Trees == UNION {TreesOfLen(n) : n \in 1..MaxEntries}

\* var files []*File, and append
NilSlice == [isNil |-> TRUE, elems |-> <<>>]

SliceAppend(slice, v) == [isNil |-> FALSE, elems |-> Append(slice.elems, v)]

\* the first entry after pos that is not below the entry at pos
SkipSubtree(entries, pos) ==
    LET after == {k \in (pos + 1)..Len(entries) : entries[k].depth <= entries[pos].depth}
    IN  IF after = {} THEN Len(entries) + 1
        ELSE CHOOSE k \in after : \A j \in after : k <= j

\* a callback that hands the access error back to Walk
CallbackReturnsError(err) == err

\* if err != nil { log.Printf("Error accessing path ..."); return nil }
CallbackOnAccessError(err) == NilError

\* if !info.IsDir()
IsNotDir(kind) == ~ IsDirKind(kind)

\* Walk after a callback has returned r for the entry at walk.pos: a
\* non-nil r ends the walk and is what Walk returns
AfterCallback(r, next) ==
    IF r = NilError
    THEN [walk EXCEPT !.pos = next, !.pc = "walk"]
    ELSE [walk EXCEPT !.err = r, !.pc = "walked"]

enumUnchanged ==
    UNCHANGED << recs, files, hashAlgos, numCPU, pc, validAlgos, algoNamesList,
                 numWorkers, spawned, fileChan, resultChan, errorChan, resultNil,
                 errorNil, wg, result, errors, ret, feeder, closer, worker,
                 delivered, opens, reads, stdout, outFile, parse, yara >>

\* Lstat failed on the entry: the callback is called with the error
WalkLstatError ==
    /\ walk.pc = "walk"
    /\ walk.pos <= Len(walk.entries)
    /\ walk.entries[walk.pos].kind = "lstatErr"
    /\ walk' = AfterCallback(CallbackOnAccessError(Errorf("lstat", EntryPaths[walk.pos])),
                             walk.pos + 1)
    /\ UNCHANGED mainPc
    /\ enumUnchanged

\* the callback is called with the FileInfo of the entry: a record is
\* appended unless the entry is a directory
WalkEntry ==
    /\ walk.pc = "walk"
    /\ walk.pos <= Len(walk.entries)
    /\ walk.entries[walk.pos].kind \notin {"lstatErr", "dirErr"}
    /\ LET kind == walk.entries[walk.pos].kind
           path == EntryPaths[walk.pos]
           info == FileInfo(path, IsDirKind(kind))
       IN  walk' = [walk EXCEPT
                       !.files = IF IsNotDir(kind)
                                 THEN SliceAppend(@, NewFile(path, info.Name, info))
                                 ELSE @,
                       !.pos = @ + 1]
    /\ UNCHANGED mainPc
    /\ enumUnchanged

\* the names of the directory cannot be read: the callback is called with
\* the FileInfo of the directory and the error, and the directory is not
\* descended into
WalkReadDirError ==
    /\ walk.pc = "walk"
    /\ walk.pos <= Len(walk.entries)
    /\ walk.entries[walk.pos].kind = "dirErr"
    /\ walk' = AfterCallback(CallbackOnAccessError(Errorf("readdir", EntryPaths[walk.pos])),
                             SkipSubtree(walk.entries, walk.pos))
    /\ UNCHANGED mainPc
    /\ enumUnchanged

\* if err != nil { return nil, err }; return files, nil
EnumerateReturn ==
    /\ \/ walk.pc = "walk" /\ walk.pos > Len(walk.entries)
       \/ walk.pc = "walked"
    /\ walk' = [walk EXCEPT
                   !.ret = IF walk.err # NilError
                           THEN [files |-> NilSlice, err |-> walk.err]
                           ELSE [files |-> walk.files, err |-> NilError],
                   !.pc = "returned"]
    /\ UNCHANGED mainPc
    /\ enumUnchanged

\* main: fs, err := files.EnumerateFiles(arguments.StrInputDir)
\* if err != nil { log.Fatalf("Error enumerating files: %v", err) }
MainEnumerated ==
    /\ mainPc = "EnumerateFiles"
    /\ walk.pc = "returned"
    /\ mainPc' = IF walk.ret.err # NilError THEN "FatalfEnumerating" ELSE "HashFiles"
    /\ UNCHANGED walk
    /\ enumUnchanged

\* HashFiles before main has called it
HashFilesNotCalled ==
    /\ recs = <<>>
    /\ files = <<>>
    /\ hashAlgos = <<>>
    /\ numCPU = 1
    /\ pc = "uncalled"
    /\ validAlgos = <<>>
    /\ algoNamesList = <<>>
    /\ numWorkers = 0
    /\ spawned = 0
    /\ fileChan = NilChan
    /\ resultChan = NilChan
    /\ errorChan = NilChan
    /\ resultNil = FALSE
    /\ errorNil = FALSE
    /\ wg = 0
    /\ result = <<>>
    /\ errors = <<>>
    /\ ret = [files |-> <<>>, err |-> NilError]
    /\ feeder = [pc |-> "unspawned", next |-> 1]
    /\ closer = "unspawned"
    /\ worker = [w \in Workers |-> IdleWorker]
    /\ delivered = <<>>
    /\ opens = <<>>
    /\ reads = <<>>
    /\ stdout = <<>>
    /\ outFile = <<>>

EnumInit ==
    /\ HashFilesNotCalled
    /\ mainPc = "EnumerateFiles"
    /\ parse = NoParse
    /\ yara = NoYara
    /\ \E tree \in Trees :
          walk = [pc |-> "walk", entries |-> tree, pos |-> 1, files |-> NilSlice,
                  err |-> NilError, ret |-> [files |-> NilSlice, err |-> NilError]]

EnumNext ==
    \/ WalkLstatError
    \/ WalkEntry
    \/ WalkReadDirError
    \/ EnumerateReturn
    \/ MainEnumerated

EnumSpec == EnumInit /\ [][EnumNext]_vars

(***************************************************************************)
(* args: hash_algorithm.go, parse_args.go, and init of dirhash.go.         *)
(***************************************************************************)
\* os.Args[1:] has at most this many strings
MaxArgs == 3

\* a lookup that exchanges the ids of md5 and sha1
StrHashAlgorithmToIdSwapped(strHashAlgorithm) ==
    CASE strHashAlgorithm = "md5" -> 1
      [] strHashAlgorithm = "sha1" -> 0
      [] strHashAlgorithm = "sha256" -> 2
      [] strHashAlgorithm = "sha512" -> 3
      [] OTHER -> -1

StrHashAlgorithmToId(strHashAlgorithm) ==
    CASE strHashAlgorithm = "md5" -> 0
      [] strHashAlgorithm = "sha1" -> 1
      [] strHashAlgorithm = "sha256" -> 2
      [] strHashAlgorithm = "sha512" -> 3
      [] OTHER -> -1

\* the error HashAlgorithmValidation returns, NilError for a valid id
HashAlgorithmValidation(id) ==
    IF id < 0 \/ id > 3 THEN Errorf("invalid hash algorithm", "") ELSE NilError

\* the strings a command line is made of here: flags in short and long
\* form, a flag ParseArgs does not know, values, and the empty string
ArgStrings ==
    {"-i", "-o", "--output", "-a", "--algorithm", "-t", "--terminal", "-f",
     "-y", "--yara-rule-name", "--yara-hash-only", "-q", "--kql-name",
     "--kql-hash-only", "--kql-tables", "-h", "-x",
     "md5", "sha256", "bogus", "ioc", "out.csv", ""}

DashStrings ==
    {"-i", "-o", "--output", "-a", "--algorithm", "-t", "--terminal", "-f",
     "-y", "--yara-rule-name", "--yara-hash-only", "-q", "--kql-name",
     "--kql-hash-only", "--kql-tables", "-h", "-x"}

\* rawArgs[i][0]: indexing the empty string is out of range
FirstByte(str) ==
    CASE str = "" -> "index out of range"
      [] str \in DashStrings -> "-"
      [] OTHER -> "other"

\* "Default values"
DefaultArgs ==
    [StrInputDir |-> ".", StrOutputFile |-> "", StrHashAlgorithms |-> <<>>,
     HashAlgorithmId |-> <<>>, OutputToTerminal |-> FALSE, WriteToFile |-> TRUE,
     OutputFormat |-> "standard", YaraOutput |-> FALSE, YaraFile |-> "",
     YaraRuleName |-> "", YaraHashOnly |-> FALSE, KQLOutput |-> FALSE,
     KQLFile |-> "", KQLName |-> "", KQLHashOnly |-> FALSE, KQLTables |-> <<>>,
     Help |-> FALSE]

\* the cases of the switch that take one value, and the field it goes to
ValueFlags ==
    {"-i", "--input-dir", "-o", "--output", "-y", "--yara", "--yara-rule-name",
     "-q", "--kql", "--kql-name"}

ValueFlagField(flag) ==
    CASE flag \in {"-i", "--input-dir"} -> "StrInputDir"
      [] flag \in {"-o", "--output"} -> "StrOutputFile"
      [] flag \in {"-y", "--yara"} -> "YaraFile"
      [] flag = "--yara-rule-name" -> "YaraRuleName"
      [] flag \in {"-q", "--kql"} -> "KQLFile"
      [] flag = "--kql-name" -> "KQLName"

\* -y and -q also switch their output on
StoreValue(args, flag, value) ==
    LET stored == [args EXCEPT ![ValueFlagField(flag)] = value]
    IN  CASE flag \in {"-y", "--yara"} -> [stored EXCEPT !.YaraOutput = TRUE]
          [] flag \in {"-q", "--kql"} -> [stored EXCEPT !.KQLOutput = TRUE]
          [] OTHER -> stored

\* the cases of the switch that take no value, and the field they set
SwitchFlags ==
    {"-t", "--terminal", "--yara-hash-only", "--kql-hash-only", "-h", "--help"}

SwitchFlagField(flag) ==
    CASE flag \in {"-t", "--terminal"} -> "OutputToTerminal"
      [] flag = "--yara-hash-only" -> "YaraHashOnly"
      [] flag = "--kql-hash-only" -> "KQLHashOnly"
      [] flag \in {"-h", "--help"} -> "Help"

AlgorithmFlags == {"-a", "--algorithm"}

FormatFlags == {"-f", "--format"}

KnownFlags ==
    ValueFlags \cup SwitchFlags \cup AlgorithmFlags \cup FormatFlags \cup {"--kql-tables"}

\* for j := i + 1; j < rawArgsLen && rawArgs[j][0] != '-'; j++ { ... i = j }
\* of -a: the arguments and the index after the loop, the error of an
\* unknown name, or the panic of rawArgs[j][0] on an empty string
RECURSIVE AlgorithmLoop(_, _, _, _)
AlgorithmLoop(rawArgs, args, i, j) ==
    IF j >= Len(rawArgs)
    THEN [args |-> args, i |-> i, err |-> NilError, panic |-> FALSE]
    ELSE LET value == rawArgs[j + 1]
         IN  CASE FirstByte(value) = "index out of range" ->
                    [args |-> args, i |-> i, err |-> NilError, panic |-> TRUE]
               [] FirstByte(value) = "-" ->
                    [args |-> args, i |-> i, err |-> NilError, panic |-> FALSE]
               [] OTHER ->
                    LET named == [args EXCEPT !.StrHashAlgorithms = Append(@, value)]
                        id == StrHashAlgorithmToId(value)
                    IN  IF id = -1
                        THEN [args |-> named, i |-> i,
                              err |-> Errorf("invalid hash algorithm", value),
                              panic |-> FALSE]
                        ELSE AlgorithmLoop(rawArgs,
                                           [named EXCEPT !.HashAlgorithmId = Append(@, id)],
                                           j, j + 1)

\* the same loop of --kql-tables
RECURSIVE TablesLoop(_, _, _, _)
TablesLoop(rawArgs, args, i, j) ==
    IF j >= Len(rawArgs)
    THEN [args |-> args, i |-> i, err |-> NilError, panic |-> FALSE]
    ELSE LET value == rawArgs[j + 1]
         IN  CASE FirstByte(value) = "index out of range" ->
                    [args |-> args, i |-> i, err |-> NilError, panic |-> TRUE]
               [] FirstByte(value) = "-" ->
                    [args |-> args, i |-> i, err |-> NilError, panic |-> FALSE]
               [] OTHER ->
                    TablesLoop(rawArgs, [args EXCEPT !.KQLTables = Append(@, value)],
                               j, j + 1)

\* a setting of the output fields that leaves them as parsed
OutputDefaultsKept(args) == args

\* "If there is no output file specified, output to terminal by default"
OutputDefaults(args) ==
    IF args.StrOutputFile = ""
    THEN [args EXCEPT !.OutputToTerminal = TRUE, !.WriteToFile = FALSE]
    ELSE args

\* a default that leaves the algorithm lists as parsed
AlgorithmDefaultsKept(args) == args

\* "If no hash algorithms were specified, default to md5"
AlgorithmDefaults(args) ==
    IF Len(args.StrHashAlgorithms) = 0
    THEN [args EXCEPT !.StrHashAlgorithms = <<"md5">>, !.HashAlgorithmId = <<0>>]
    ELSE args

\* "If no KQL tables were specified, default to DeviceFileEvents"
TableDefaults(args) ==
    IF Len(args.KQLTables) = 0
    THEN [args EXCEPT !.KQLTables = <<"DeviceFileEvents">>]
    ELSE args

argsUnchanged ==
    UNCHANGED << recs, files, hashAlgos, numCPU, pc, validAlgos, algoNamesList,
                 numWorkers, spawned, fileChan, resultChan, errorChan, resultNil,
                 errorNil, wg, result, errors, ret, feeder, closer, worker,
                 delivered, opens, reads, outFile, walk, yara >>

\* the loop is at rawArgs[i]
AtArg == parse.pc = "loop" /\ parse.i < Len(parse.rawArgs)

\* rawArgs[i], Go's indices starting at 0
CurrentArg == parse.rawArgs[parse.i + 1]

\* return args, errors.New(...)
ReturnError(args, kind, arg) ==
    [parse EXCEPT !.args = args, !.err = Errorf(kind, arg), !.pc = "returned"]

\* rawArgs[i][0] of an empty string: the runtime panics and the process ends
ParseIndexPanic ==
    /\ AtArg
    /\ FirstByte(CurrentArg) = "index out of range"
    /\ parse' = [parse EXCEPT !.pc = "panicked"]
    /\ mainPc' = "panic"
    /\ UNCHANGED stdout
    /\ argsUnchanged

\* else { return args, errors.New("unexpected argument: " + rawArgs[i]) }
ParseUnexpected ==
    /\ AtArg
    /\ FirstByte(CurrentArg) = "other"
    /\ parse' = ReturnError(parse.args, "unexpected argument", CurrentArg)
    /\ UNCHANGED mainPc
    /\ UNCHANGED stdout
    /\ argsUnchanged

\* default: return args, errors.New("unknown flag: " + rawArgs[i])
ParseUnknownFlag ==
    /\ AtArg
    /\ FirstByte(CurrentArg) = "-"
    /\ CurrentArg \notin KnownFlags
    /\ parse' = ReturnError(parse.args, "unknown flag", CurrentArg)
    /\ UNCHANGED mainPc
    /\ UNCHANGED stdout
    /\ argsUnchanged

\* case "-i", "-o", "-y", "--yara-rule-name", "-q", "--kql-name"
ParseValueFlag ==
    /\ AtArg
    /\ CurrentArg \in ValueFlags
    /\ LET nextArg == parse.i + 1
       IN  parse' = IF nextArg >= Len(parse.rawArgs)
                    THEN ReturnError(parse.args, "missing value", CurrentArg)
                    ELSE [parse EXCEPT
                             !.args = StoreValue(@, CurrentArg, parse.rawArgs[nextArg + 1]),
                             !.i = @ + 2]
    /\ UNCHANGED mainPc
    /\ UNCHANGED stdout
    /\ argsUnchanged

\* case "-f", "--format"
ParseFormat ==
    /\ AtArg
    /\ CurrentArg \in FormatFlags
    /\ LET nextArg == parse.i + 1
       IN  parse' =
             IF nextArg >= Len(parse.rawArgs)
             THEN ReturnError(parse.args, "missing value", CurrentArg)
             ELSE LET format == parse.rawArgs[nextArg + 1]
                  IN  IF format # "standard" /\ format # "condensed" /\ format # "ioc"
                      THEN ReturnError(parse.args, "invalid output format", format)
                      ELSE [parse EXCEPT !.args.OutputFormat = format, !.i = @ + 2]
    /\ UNCHANGED mainPc
    /\ UNCHANGED stdout
    /\ argsUnchanged

\* what follows the loop of -a or --kql-tables
AfterLoop(r) ==
    CASE r.panic -> [parse EXCEPT !.args = r.args, !.i = r.i, !.pc = "panicked"]
      [] ~ r.panic /\ r.err # NilError ->
            [parse EXCEPT !.args = r.args, !.i = r.i, !.err = r.err, !.pc = "returned"]
      [] OTHER -> [parse EXCEPT !.args = r.args, !.i = r.i + 1]

\* case "-a", "--algorithm"
ParseAlgorithm ==
    /\ AtArg
    /\ CurrentArg \in AlgorithmFlags
    /\ parse' = AfterLoop(AlgorithmLoop(parse.rawArgs, parse.args, parse.i, parse.i + 1))
    /\ mainPc' = IF parse'.pc = "panicked" THEN "panic" ELSE mainPc
    /\ UNCHANGED stdout
    /\ argsUnchanged

\* case "--kql-tables"
ParseKqlTables ==
    /\ AtArg
    /\ CurrentArg = "--kql-tables"
    /\ parse' = AfterLoop(TablesLoop(parse.rawArgs, parse.args, parse.i, parse.i + 1))
    /\ mainPc' = IF parse'.pc = "panicked" THEN "panic" ELSE mainPc
    /\ UNCHANGED stdout
    /\ argsUnchanged

\* case "-t", "--yara-hash-only", "--kql-hash-only", "-h"
ParseSwitchFlag ==
    /\ AtArg
    /\ CurrentArg \in SwitchFlags
    /\ parse' = [parse EXCEPT !.args[SwitchFlagField(CurrentArg)] = TRUE, !.i = @ + 1]
    /\ UNCHANGED mainPc
    /\ UNCHANGED stdout
    /\ argsUnchanged

\* the loop is over: the defaults, and return args, nil
ParseFinish ==
    /\ parse.pc = "loop"
    /\ parse.i >= Len(parse.rawArgs)
    /\ parse' = [parse EXCEPT
                    !.args = TableDefaults(AlgorithmDefaults(OutputDefaults(@))),
                    !.pc = "returned"]
    /\ UNCHANGED mainPc
    /\ UNCHANGED stdout
    /\ argsUnchanged

\* what cmdline.PrintHelp() prints
HelpText == [kind |-> "message", text |-> "help"]

\* init of dirhash.go after ParseArgs: log.Fatal(err), or the help and
\* os.Exit(0), or on to main
InitParsed ==
    /\ mainPc = "init"
    /\ parse.pc = "returned"
    /\ mainPc' = CASE parse.err # NilError -> "LogFatal"
                   [] parse.err = NilError /\ parse.args.Help -> "ExitHelp"
                   [] OTHER -> "main"
    /\ stdout' = IF parse.err = NilError /\ parse.args.Help THEN <<HelpText>> ELSE stdout
    /\ UNCHANGED parse
    /\ argsUnchanged

ArgsInit ==
    /\ HashFilesNotCalled
    /\ mainPc = "init"
    /\ walk = NoWalk
    /\ yara = NoYara
    /\ \E rawArgs \in SeqsUpTo(ArgStrings, MaxArgs) :
          parse = [pc |-> "loop", rawArgs |-> rawArgs, i |-> 0, args |-> DefaultArgs,
                   err |-> NilError]

ArgsNext ==
    \/ ParseIndexPanic
    \/ ParseUnexpected
    \/ ParseUnknownFlag
    \/ ParseValueFlag
    \/ ParseFormat
    \/ ParseAlgorithm
    \/ ParseKqlTables
    \/ ParseSwitchFlag
    \/ ParseFinish
    \/ InitParsed

ArgsSpec == ArgsInit /\ [][ArgsNext]_vars

(***************************************************************************)
(* Package yara: GenerateYaraRule, GenerateYaraRuleFromHashes and what     *)
(* they call.  A Go string is the sequence of its characters here, and a   *)
(* formatted string the sequence of its parts.                             *)
(***************************************************************************)
\* a batch given to package yara has at most this many files
MaxYaraFiles == 2

\* a file name has at most this many characters
MaxNameLen == 2

Letters ==
    {"a", "b", "c", "d", "e", "f", "g", "h", "i", "j", "k", "l", "m",
     "n", "o", "p", "q", "r", "s", "t", "u", "v", "w", "x", "y", "z",
     "A", "B", "C", "D", "E", "F", "G", "H", "I", "J", "K", "L", "M",
     "N", "O", "P", "Q", "R", "S", "T", "U", "V", "W", "X", "Y", "Z"}

Digits == {"0", "1", "2", "3", "4", "5", "6", "7", "8", "9"}

\* the characters file names and rule names are made of here
NameChars == {"a", "1", ".", "-", "_"}

\* the function given to strings.Map: letters, digits and the underscore
\* stay, every other character becomes an underscore
MapRune(r) == IF r \in Letters \/ r \in Digits \/ r = "_" THEN r ELSE "_"

StringsMap(str) == [k \in 1..Len(str) |-> MapRune(str[k])]

\* filepath.Ext: the suffix that begins at the last dot of the last
\* element of the path, empty if there is none
RECURSIVE ExtFrom(_, _)
ExtFrom(path, k) ==
    IF k < 1 \/ path[k] = "/" THEN <<>>
    ELSE IF path[k] = "." THEN SubSeq(path, k, Len(path))
    ELSE ExtFrom(path, k - 1)

Ext(path) == ExtFrom(path, Len(path))

\* strings.TrimSuffix
TrimSuffix(str, suffix) ==
    IF Len(suffix) <= Len(str)
       /\ SubSeq(str, Len(str) - Len(suffix) + 1, Len(str)) = suffix
    THEN SubSeq(str, 1, Len(str) - Len(suffix))
    ELSE str

\* filepath.Base: the last element of the path, trailing separators
\* removed; "." for the empty path and "/" for a path of separators only
RECURSIVE StripSeparators(_)
StripSeparators(path) ==
    IF path # <<>> /\ path[Len(path)] = "/"
    THEN StripSeparators(SubSeq(path, 1, Len(path) - 1))
    ELSE path

RECURSIVE LastElement(_, _)
LastElement(path, k) ==
    IF k < 1 THEN path
    ELSE IF path[k] = "/" THEN SubSeq(path, k + 1, Len(path))
    ELSE LastElement(path, k - 1)

Base(path) ==
    IF path = <<>> THEN <<".">>
    ELSE LET stripped == StripSeparators(path)
         IN  IF stripped = <<>> THEN <<"/">> ELSE LastElement(stripped, Len(stripped))

\* "generated_rule"
DefaultRuleName ==
    <<"g", "e", "n", "e", "r", "a", "t", "e", "d", "_", "r", "u", "l", "e">>

\* "hash_based_rule"
HashBasedRuleName ==
    <<"h", "a", "s", "h", "_", "b", "a", "s", "e", "d", "_", "r", "u", "l", "e">>

\* a leading digit gets an underscore in front of it
PrefixDigit(sanitized) ==
    IF Len(sanitized) > 0 /\ sanitized[1] \in Digits THEN <<"_">> \o sanitized ELSE sanitized

sanitizeRuleName(name) ==
    LET sanitized == PrefixDigit(StringsMap(name))
    IN  IF sanitized = <<>> THEN DefaultRuleName ELSE sanitized

sanitizeStringName(name) ==
    LET base == TrimSuffix(name, Ext(name))
        sanitized == PrefixDigit(StringsMap(base))
    IN  IF sanitized = <<>> THEN <<"f", "i", "l", "e">> ELSE sanitized

\* strings.ToUpper on a hexadecimal digit
ToUpper(c) ==
    IF \E k \in 1..16 : LowerHexDigits[k] = c
    THEN UpperHexDigits[CHOOSE k \in 1..16 : LowerHexDigits[k] = c]
    ELSE c

\* formatHashForYara: the upper-case pairs of digits, joined by spaces
RECURSIVE formatHashForYaraFrom(_, _)
formatHashForYaraFrom(hash, i) ==
    IF i + 1 > Len(hash) THEN <<>>
    ELSE (IF i = 1 THEN <<>> ELSE <<" ">>)
         \o <<ToUpper(hash[i]), ToUpper(hash[i + 1])>>
         \o formatHashForYaraFrom(hash, i + 2)

formatHashForYara(hash) == formatHashForYaraFrom(hash, 1)

\* fmt.Sprintf("$%s_%s", hashType, baseName)
HashStringName(hashType, baseName) == <<"$", hashType, "_">> \o baseName

\* fmt.Sprintf("$filename_%s", sanitizeStringName(fileName))
FilenameStringName(fileName) == <<"$", "filename", "_">> \o sanitizeStringName(fileName)

YaraString(name, value, type) == [Name |-> name, Value |-> value, Type |-> type]

\* the strings of one file for the hash types from position k on, their
\* values formatted by formatHashForYara or as they are
RECURSIVE HashStringsOf(_, _, _, _)
HashStringsOf(file, hashTypes, k, formatted) ==
    IF k > Len(hashTypes) THEN <<>>
    ELSE LET hashType == hashTypes[k]
             here == IF hashType \in DOMAIN file.Hashes /\ file.Hashes[hashType] # <<>>
                     THEN <<YaraString(HashStringName(hashType,
                                                      sanitizeStringName(file.FileName)),
                                       IF formatted
                                       THEN formatHashForYara(file.Hashes[hashType])
                                       ELSE file.Hashes[hashType],
                                       "hex")>>
                     ELSE <<>>
         IN  here \o HashStringsOf(file, hashTypes, k + 1, formatted)

RECURSIVE generateHashStrings(_)
generateHashStrings(fileList) ==
    IF fileList = <<>> THEN <<>>
    ELSE HashStringsOf(Head(fileList), SortedHashTypes, 1, TRUE)
         \o generateHashStrings(Tail(fileList))

\* one string per base name not seen before
RECURSIVE generateFilenameStringsFrom(_, _)
generateFilenameStringsFrom(fileList, seenNames) ==
    IF fileList = <<>> THEN <<>>
    ELSE LET fileName == Base(Head(fileList).FileName)
         IN  IF fileName \in seenNames
             THEN generateFilenameStringsFrom(Tail(fileList), seenNames)
             ELSE <<YaraString(FilenameStringName(fileName), fileName, "text")>>
                  \o generateFilenameStringsFrom(Tail(fileList), seenNames \cup {fileName})

generateFilenameStrings(fileList) == generateFilenameStringsFrom(fileList, {})

\* strings.Join
RECURSIVE Join(_, _)
Join(parts, sep) ==
    IF parts = <<>> THEN <<>>
    ELSE IF Len(parts) = 1 THEN Head(parts)
    ELSE Head(parts) \o <<sep>> \o Join(Tail(parts), sep)

NamesOfType(yaraStrings, hex) ==
    LET idx == SelectSeq([k \in 1..Len(yaraStrings) |-> k],
                         LAMBDA k : IF hex THEN yaraStrings[k].Type = "hex"
                                    ELSE /\ yaraStrings[k].Type # "hex"
                                         /\ yaraStrings[k].Name[2] = "filename")
    IN  [k \in 1..Len(idx) |-> yaraStrings[idx[k]].Name]

AnyOf(names) ==
    IF Len(names) = 1 THEN names[1] ELSE <<"any of (">> \o Join(names, ", ") \o <<")">>

generateCondition(yaraStrings) ==
    LET hashConditions == NamesOfType(yaraStrings, TRUE)
        filenameConditions == NamesOfType(yaraStrings, FALSE)
        conditions == (IF Len(hashConditions) > 0 THEN <<AnyOf(hashConditions)>> ELSE <<>>)
                      \o (IF Len(filenameConditions) > 0
                          THEN <<AnyOf(filenameConditions)>> ELSE <<>>)
    IN  IF Len(yaraStrings) = 0 \/ Len(conditions) = 0 THEN <<"true">>
        ELSE Join(conditions, " or ")

generateHashCondition(yaraStrings) ==
    LET conditions == [k \in 1..Len(yaraStrings) |-> yaraStrings[k].Name]
    IN  IF Len(yaraStrings) = 0 THEN <<"true">>
        ELSE IF Len(conditions) = 1 THEN conditions[1]
        ELSE <<"any of (">> \o Join(conditions, ", ") \o <<")">>

NoRule == [Name |-> <<>>, Strings |-> <<>>, Condition |-> <<>>]

GenerateYaraRule(fileList, ruleName) ==
    IF Len(fileList) = 0
    THEN [rule |-> NoRule, err |-> Errorf("no files provided", "")]
    ELSE LET name == sanitizeRuleName(IF ruleName = <<>> THEN DefaultRuleName
                                                          ELSE ruleName)
             strs == generateHashStrings(fileList) \o generateFilenameStrings(fileList)
         IN  [rule |-> [Name |-> name, Strings |-> strs,
                        Condition |-> generateCondition(strs)],
              err |-> NilError]

RECURSIVE HashStringsFor(_, _)
HashStringsFor(fileList, hashTypes) ==
    IF fileList = <<>> THEN <<>>
    ELSE HashStringsOf(Head(fileList), hashTypes, 1, FALSE)
         \o HashStringsFor(Tail(fileList), hashTypes)

GenerateYaraRuleFromHashes(fileList, ruleName, hashTypes) ==
    IF Len(fileList) = 0
    THEN [rule |-> NoRule, err |-> Errorf("no files provided", "")]
    ELSE LET name == sanitizeRuleName(IF ruleName = <<>> THEN HashBasedRuleName
                                                          ELSE ruleName)
             strs == HashStringsFor(fileList, hashTypes)
         IN  IF Len(strs) = 0
             THEN [rule |-> NoRule, err |-> Errorf("no valid hashes found", "")]
             ELSE [rule |-> [Name |-> name, Strings |-> strs,
                             Condition |-> generateHashCondition(strs)],
                   err |-> NilError]

\* the digest maps a hashed file is given here: none, md5, md5 and sha256
\* of the empty content, and an md5 entry that is the empty string
HashMaps ==
    {EmptyMap,
     MapPut(EmptyMap, "md5", SprintfX(Digest(0, <<>>))),
     MapPut(MapPut(EmptyMap, "md5", SprintfX(Digest(0, <<>>))),
            "sha256", SprintfX(Digest(2, <<>>))),
     MapPut(EmptyMap, "md5", <<>>)}

\* the names a file of a directory can have: "." and ".." are not among them
FileNames ==
    UNION {[1..n -> NameChars] : n \in 1..MaxNameLen} \ {<<".">>, <<".", ".">>}

HashedFile(fileName, hashes) ==
    [FileName |-> fileName, Path |-> fileName, Size |-> 0, ModTime |-> <<"mtime", "">>,
     Hashes |-> hashes, HashesNil |-> FALSE]

\* arguments.YaraRuleName
RuleNames == {<<>>, <<"1", "-">>}

\* arguments.StrHashAlgorithms
YaraHashTypes == {<<"md5">>, <<"md5", "sha256">>, <<"sha512">>}

yaraUnchanged ==
    UNCHANGED << recs, files, hashAlgos, numCPU, pc, validAlgos, algoNamesList,
                 numWorkers, spawned, fileChan, resultChan, errorChan, resultNil,
                 errorNil, wg, result, errors, ret, feeder, closer, worker,
                 delivered, opens, reads, stdout, outFile, walk, parse >>

\* generateYaraRule of dirhash.go, standard mode
CallGenerateYaraRule ==
    /\ mainPc = "generateYaraRule"
    /\ yara.pc = "call"
    /\ LET r == GenerateYaraRule(yara.files, yara.ruleName)
       IN  yara' = [yara EXCEPT !.rule = r.rule, !.err = r.err, !.pc = "returned"]
    /\ mainPc' = "generated"
    /\ yaraUnchanged

\* generateYaraRule of dirhash.go, hash-only mode
CallGenerateYaraRuleFromHashes ==
    /\ mainPc = "generateYaraRule"
    /\ yara.pc = "call"
    /\ \E hashTypes \in YaraHashTypes :
          LET r == GenerateYaraRuleFromHashes(yara.files, yara.ruleName, hashTypes)
          IN  yara' = [yara EXCEPT !.rule = r.rule, !.err = r.err, !.pc = "returned"]
    /\ mainPc' = "generated"
    /\ yaraUnchanged

YaraInit ==
    /\ HashFilesNotCalled
    /\ mainPc = "generateYaraRule"
    /\ walk = NoWalk
    /\ parse = NoParse
    /\ \E n \in 0..MaxYaraFiles :
         \E names \in [1..n -> FileNames], maps \in [1..n -> HashMaps],
            ruleName \in RuleNames :
            yara = [pc |-> "call",
                    files |-> [k \in 1..n |-> HashedFile(names[k], maps[k])],
                    ruleName |-> ruleName, rule |-> NoRule, err |-> NilError]

YaraNext == CallGenerateYaraRule \/ CallGenerateYaraRuleFromHashes

YaraSpec == YaraInit /\ [][YaraNext]_vars

(***************************************************************************)
(* Vocabulary of the properties.                                           *)
(***************************************************************************)
Returned == pc = "returned"

\* the call got past both early returns and ran the worker pool
Accepted == Len(files) # 0 /\ FilterValidAlgos(hashAlgos) # <<>>

\* the file at path p can be opened and read to its end
Hashable(p) ==
    /\ CanOpen(p)
    /\ \A off \in 0..Len(Content(p)) : ReadAt(p, off).kind # "err"

Batch == 1..Len(files)

GoodRecords == {i \in Batch : Hashable(recs[i].Path)}

BadRecords == Batch \ GoodRecords

NoDuplicates(s) == \A i, j \in 1..Len(s) : i # j => s[i] # s[j]

\* a goroutine that was started has run to its end
GoroutinesFinished ==
    /\ feeder.pc \in {"unspawned", "done"}
    /\ closer \in {"unspawned", "done"}
    /\ \A w \in Workers : worker[w].pc \in {"unspawned", "done"}

WorkersLeft == {w \in Workers : worker[w].pc = "done"}

(***************************************************************************)
(* C1  Partial-failure isolation.  When HashFiles returns from a non-empty *)
(* batch with at least one valid algorithm id, the returned collection     *)
(* holds exactly the records whose file could be opened and read to the    *)
(* end, each once, and the returned error is non-nil when some record      *)
(* failed: a failing record never keeps another one out of the result.     *)
(***************************************************************************)
C1_PartialFailureIsolation ==
    (Returned /\ Accepted) =>
        /\ NoDuplicates(ret.files)
        /\ Range(ret.files) = GoodRecords
        /\ (BadRecords # {} => ret.err # NilError)

\* a batch of several records of which one has a nonexistent path has
\* returned all the others and the open error of the bad path
C1_Witness ==
    /\ Returned
    /\ Len(files) >= 2
    /\ Cardinality(BadRecords) = 1
    /\ \E i \in BadRecords : recs[i].Path = "noent" /\ ret.err = Errorf("open", "noent")
    /\ Len(ret.files) = Len(files) - 1

(***************************************************************************)
(* C2  No leaked background work.  When HashFiles has returned, every      *)
(* spawned worker has left its loop and called wg.Done, the feeder has     *)
(* closed the work queue, the closer has closed both result channels, and  *)
(* no goroutine of the call can take another step.                         *)
(***************************************************************************)
C2_NoLeakedGoroutines ==
    Returned =>
        /\ GoroutinesFinished
        /\ ~ ENABLED (FeederNext \/ CloserNext \/ \E w \in Workers : WorkerNext(w))
        /\ Accepted =>
              /\ Cardinality(WorkersLeft) = numWorkers
              /\ wg = 0
              /\ feeder.pc = "done" /\ fileChan.closed
              /\ closer = "done" /\ resultChan.closed /\ errorChan.closed

\* a call that ran several workers has returned
C2_Witness ==
    /\ Returned
    /\ Len(files) >= 2
    /\ Cardinality(WorkersLeft) >= 2
    /\ closer = "done"

(***************************************************************************)
(* C3  Full drain.  The select loop of HashFiles is left only when both    *)
(* result channels are closed and empty, and then the records collected    *)
(* plus the errors collected are as many as the batch has records.         *)
(***************************************************************************)
C3_FullDrain ==
    (pc \in {"return", "returned"} /\ Accepted) =>
        /\ resultChan.closed /\ resultChan.buf = <<>>
        /\ errorChan.closed /\ errorChan.buf = <<>>
        /\ Len(result) + Len(errors) = Len(files)

\* the loop has just been left with both successes and failures collected
C3_Witness ==
    /\ pc = "return"
    /\ Len(result) >= 1
    /\ Len(errors) >= 1

(***************************************************************************)
(* C4  Termination.  Under fair scheduling every run of HashFiles reaches  *)
(* its return with every goroutine it started finished, and no state       *)
(* before the return is a deadlock.                                        *)
(***************************************************************************)
C4_Termination ==
    /\ [](Returned \/ ENABLED Next)
    /\ <>(Returned /\ GoroutinesFinished)

\* a pooled call, with failures in the batch, has run to completion
C4_Witness ==
    /\ Returned
    /\ Accepted
    /\ numWorkers >= 2
    /\ BadRecords # {}
    /\ GoroutinesFinished

(***************************************************************************)
(* C5  Exclusive ownership.  No record is received from the work queue     *)
(* twice, no two workers hold the same record, calculateAllHashes is       *)
(* entered at most once per record and only by the worker that holds it,   *)
(* and when HashFiles returns every record was delivered and processed     *)
(* exactly once.                                                           *)
(***************************************************************************)
C5_ExclusiveOwnership ==
    /\ \A i \in Batch : delivered[i] <= 1 /\ opens[i] <= delivered[i]
    /\ \A v, w \in Workers :
          (v # w /\ worker[v].file # NoFile) => worker[v].file # worker[w].file
    /\ (Returned /\ Accepted) => \A i \in Batch : delivered[i] = 1 /\ opens[i] = 1

\* two workers hold two different records at the same time
C5_Witness ==
    \E v, w \in Workers :
        /\ v # w
        /\ worker[v].file # NoFile
        /\ worker[w].file # NoFile
        /\ worker[v].pc = "copy"
        /\ worker[w].pc = "copy"

(***************************************************************************)
(* Reading a digest string back.                                           *)
(***************************************************************************)
IsLowerHex(str) == \A k \in 1..Len(str) : str[k] \in Range(LowerHexDigits)

HexDigitValue(c) ==
    CHOOSE v \in 0..15 : LowerHexDigits[v + 1] = c \/ UpperHexDigits[v + 1] = c

HexDecode(str) ==
    [k \in 1..(Len(str) \div 2) |->
        16 * HexDigitValue(str[2 * k - 1]) + HexDigitValue(str[2 * k])]

\* records that went down the success path of a worker
Succeeded == Range(resultChan.buf) \cup Range(result) \cup Range(ret.files)

SupportedIds == {GetSupportedAlgorithms[i].ID : i \in 1..Len(GetSupportedAlgorithms)}

NameOf(id) == (CHOOSE a \in Range(GetSupportedAlgorithms) : a.ID = id).Name

(***************************************************************************)
(* C6  Completeness, as claimed.  For every record HashFiles returns from  *)
(* the pool, the digest map has as many entries as algorithms were         *)
(* requested (counting the requested ids that passed validation) and the   *)
(* canonical name of each is a key.                                        *)
(***************************************************************************)
C6_Completeness ==
    (Returned /\ Accepted) =>
        \A i \in Range(ret.files) :
            /\ Cardinality(DOMAIN recs[i].Hashes) = Len(validAlgos)
            /\ \A k \in 1..Len(validAlgos) : NameOf(validAlgos[k]) \in DOMAIN recs[i].Hashes

(***************************************************************************)
(* C7  Digest correctness.  For every record that went down the success    *)
(* path and every supported id a of the request, the digest map has under  *)
(* the canonical name of a the lowercase hexadecimal form of the digest of *)
(* the whole content of the file under the function of a.                  *)
(***************************************************************************)
C7_DigestCorrectness ==
    Accepted =>
        \A i \in Succeeded :
            \A a \in Range(hashAlgos) \cap SupportedIds :
                /\ NameOf(a) \in DOMAIN recs[i].Hashes
                /\ IsLowerHex(recs[i].Hashes[NameOf(a)])
                /\ HexDecode(recs[i].Hashes[NameOf(a)]) = Digest(a, Content(recs[i].Path))

\* a record of two chunks was returned with two digests of different
\* algorithms, requested out of registry order
C7_Witness ==
    /\ Returned
    /\ \E i \in Range(ret.files) :
          /\ Len(Content(recs[i].Path)) >= 2
          /\ Cardinality(DOMAIN recs[i].Hashes) = 2
    /\ Len(validAlgos) = 2
    /\ validAlgos[1] > validAlgos[2]

(***************************************************************************)
(* C8  Single read.  os.Open is called at most once per record and every   *)
(* chunk of a file is returned by Read at most once, whatever the number   *)
(* of algorithms; when the copy has reached the end of the file, the file  *)
(* was opened once, every chunk was read once, and every one of the K      *)
(* hashers has received the whole content.                                 *)
(***************************************************************************)
C8_SingleRead ==
    /\ \A i \in Batch :
          /\ opens[i] <= 1
          /\ \A c \in DOMAIN reads[i] : reads[i][c] <= 1
    /\ \A w \in Workers :
          worker[w].pc = "extract" =>
              LET i == worker[w].file
              IN  /\ opens[i] = 1
                  /\ \A c \in DOMAIN reads[i] : reads[i][c] = 1
                  /\ Len(worker[w].hashers) = Len(validAlgos)
                  /\ \A k \in 1..Len(worker[w].hashers) :
                        worker[w].hashers[k].data = Content(recs[i].Path)

\* a file of several chunks has been streamed to two hashers
C8_Witness ==
    \E w \in Workers :
        /\ worker[w].pc = "extract"
        /\ Len(worker[w].hashers) = 2
        /\ Len(Content(recs[worker[w].file].Path)) >= 2

(***************************************************************************)
(* C9  No partial digests.  A record whose file cannot be opened or read   *)
(* to the end keeps the digest map it had before the call, in particular   *)
(* when calculateAllHashes has returned an error for it; a digest map is   *)
(* written only after every chunk of the file has been read.               *)
(***************************************************************************)
C9_NoPartialDigests ==
    /\ \A i \in BadRecords : recs[i].Hashes = EnumeratedFile(recs[i].Path).Hashes
    /\ \A w \in Workers :
          worker[w].pc = "sendErr" =>
              recs[worker[w].file].Hashes = EnumeratedFile(recs[worker[w].file].Path).Hashes
    /\ \A i \in Batch :
          recs[i].Hashes # EnumeratedFile(recs[i].Path).Hashes =>
              \A c \in DOMAIN reads[i] : reads[i][c] = 1

\* calculateAllHashes has failed part-way: one chunk was read, the next
\* Read failed
C9_Witness ==
    \E w \in Workers :
        /\ worker[w].pc = "sendErr"
        /\ worker[w].err.kind = "read"
        /\ reads[worker[w].file][1] = 1
        /\ Len(validAlgos) = 2

(***************************************************************************)
(* C10  Representative error.  HashFiles returns from the pool with a nil  *)
(* error exactly when no record failed; otherwise it returns the first     *)
(* error the select loop received, together with all the records that      *)
(* succeeded.                                                              *)
(***************************************************************************)
C10_RepresentativeError ==
    (Returned /\ Accepted) =>
        /\ (ret.err = NilError) <=> (BadRecords = {})
        /\ BadRecords # {} => (errors # <<>> /\ ret.err = errors[1])
        /\ ret.files = result
        /\ Range(ret.files) = GoodRecords

\* the error returned is the read failure of a later record although the
\* first record of the batch failed too
C10_Witness ==
    /\ Returned
    /\ Len(files) >= 2
    /\ recs[files[1]].Path = "noent"
    /\ ret.err = Errorf("read", "ioerr")


(***************************************************************************)
(* Vocabulary of the validation claims.                                    *)
(***************************************************************************)
\* no id of the requested list is one of the registry
NoSupportedId == \A k \in 1..Len(hashAlgos) : hashAlgos[k] \notin SupportedIds

\* nothing of the worker pool exists: no goroutine, no channel, no file
\* opened or read, every digest map as enumeration left it
NothingStarted ==
    /\ spawned = 0
    /\ wg = 0
    /\ \A w \in Workers : worker[w] = IdleWorker
    /\ feeder.pc = "unspawned"
    /\ closer = "unspawned"
    /\ fileChan = NilChan /\ resultChan = NilChan /\ errorChan = NilChan
    /\ \A i \in DOMAIN recs :
          /\ delivered[i] = 0
          /\ opens[i] = 0
          /\ \A c \in DOMAIN reads[i] : reads[i][c] = 0
          /\ recs[i].Hashes = EnumeratedFile(recs[i].Path).Hashes

(***************************************************************************)
(* C11  No-valid-algorithm rejection.  A call of HashFiles with a          *)
(* non-empty batch and an algorithm list that is empty or holds only       *)
(* unsupported ids is either still at its entry or has returned, with a    *)
(* non-nil error once returned; at no time has it spawned a worker,        *)
(* opened a file or changed a digest map.                                  *)
(***************************************************************************)
C11_NoValidAlgorithmRejection ==
    (Len(files) # 0 /\ NoSupportedId) =>
        /\ pc \in {"entry", "returned"}
        /\ NothingStarted
        /\ Returned => ret.err = Errorf("novalid", "")
        /\ Returned => ret.err # NilError

\* a batch of one record was rejected for a list of two unsupported ids
C11_Witness ==
    /\ Returned
    /\ Len(files) = 1
    /\ hashAlgos = <<999, -1>>
    /\ ret.err # NilError


\* the supported ids of the requested list, in the order of the request
RECURSIVE SupportedOf(_)
SupportedOf(algos) ==
    IF algos = <<>> THEN <<>>
    ELSE (IF Head(algos) \in SupportedIds THEN <<Head(algos)>> ELSE <<>>)
         \o SupportedOf(Tail(algos))

C13_Deduplicated ==
    \A w \in Workers :
        worker[w].pc = "copy" =>
            /\ NoDuplicates([k \in 1..Len(worker[w].hashers) |-> worker[w].hashers[k].algo])
            /\ Len(worker[w].hashers) = Cardinality(Range(hashAlgos) \cap SupportedIds)


(***************************************************************************)
(* C14  Empty batch.  A call of HashFiles with an empty batch is either    *)
(* still at its entry or has returned an empty collection and a nil        *)
(* error, whatever the algorithm list; it never creates a channel or       *)
(* spawns a goroutine.                                                     *)
(***************************************************************************)
C14_EmptyBatch ==
    Len(files) = 0 =>
        /\ pc \in {"entry", "returned"}
        /\ NothingStarted
        /\ numWorkers = 0
        /\ Returned => (ret.files = <<>> /\ ret.err = NilError)

\* an empty batch has returned although the list held no supported id
C14_Witness ==
    /\ Returned
    /\ Len(files) = 0
    /\ hashAlgos = <<999>>
    /\ ret = [files |-> <<>>, err |-> NilError]


(***************************************************************************)
(* C15  Only processed records are returned, as claimed.  On every return  *)
(* path of HashFiles each record of the returned collection was opened     *)
(* and read by a worker and carries computed digests; a call rejected for  *)
(* having no valid algorithm returns no record.                            *)
(***************************************************************************)
C15_OnlyProcessedReturned ==
    Returned =>
        /\ \A i \in Range(ret.files) :
              /\ opens[i] = 1
              /\ DOMAIN recs[i].Hashes # {}
        /\ ret.err = Errorf("novalid", "") => ret.files = <<>>


\* the digest map of a hashed record as the inputs of the call alone fix
\* it: the path's content and the supported ids of the request
DeterminedHashes(p) ==
    [name \in {NameOf(a) : a \in Range(hashAlgos) \cap SupportedIds} |->
        SprintfX(Digest(CHOOSE a \in SupportedIds : NameOf(a) = name, Content(p)))]

\* the records a call returns, as the inputs alone fix them
DeterminedRecords ==
    IF Len(files) = 0 THEN {}
    ELSE IF NoSupportedId THEN Range(files)
    ELSE GoodRecords

(***************************************************************************)
(* C16  Determinism of content.  When HashFiles has returned, the set of   *)
(* returned records and the digest map of every record of the batch are    *)
(* what the batch, the file contents and the algorithm list determine,     *)
(* whatever the number of workers and their interleaving; each record is   *)
(* returned once, so two runs differ at most in the order of the           *)
(* collection.                                                             *)
(***************************************************************************)
C16_DeterministicContent ==
    Returned =>
        /\ Range(ret.files) = DeterminedRecords
        /\ NoDuplicates(ret.files)
        /\ \A i \in Batch :
              recs[i].Hashes = IF Accepted /\ i \in GoodRecords
                               THEN DeterminedHashes(recs[i].Path)
                               ELSE EmptyMap

\* two workers finished in the order opposite to the submission order: the
\* second record of the batch is returned first
C16_Witness ==
    /\ Returned
    /\ Len(files) = 2
    /\ numWorkers = 2
    /\ recs[files[1]].Path = "ok"
    /\ recs[files[2]].Path = "empty"
    /\ ret.files = <<files[2], files[1]>>
    /\ hashAlgos = <<2, 2>>


\* the workers that hold a record: a per-file computation is in progress
Computing == {w \in Workers : worker[w].file # NoFile}

(***************************************************************************)
(* C17  Bounded parallelism.  Once HashFiles is past validation of a       *)
(* non-empty batch, the number of workers it spawns is the smaller of the  *)
(* available parallelism and the batch size: at least 1, at most the       *)
(* parallelism, at most the batch size.  No more goroutines than that are  *)
(* ever started, all of them are started before the feeder is, and never   *)
(* more than that many per-file computations are in progress.              *)
(***************************************************************************)
C17_BoundedParallelism ==
    (Accepted /\ pc # "entry") =>
        /\ numWorkers = (IF numCPU <= Len(files) THEN numCPU ELSE Len(files))
        /\ numWorkers >= 1
        /\ numWorkers <= numCPU
        /\ numWorkers <= Len(files)
        /\ spawned <= numWorkers
        /\ Cardinality({w \in Workers : worker[w].pc # "unspawned"}) = spawned
        /\ pc # "spawn" => spawned = numWorkers
        /\ Cardinality(Computing) <= numWorkers

\* a batch of one record on a machine of two CPUs: the single worker is
\* hashing and no second worker exists
C17_Witness ==
    /\ Len(files) = 1
    /\ numCPU = 2
    /\ numWorkers = 1
    /\ pc = "select"
    /\ Cardinality(Computing) = 1
    /\ \A w \in Workers : worker[w].pc = "unspawned" \/ worker[w].pc = "copy"


(***************************************************************************)
(* C18  Per-file failures do not stop the run, as claimed.  When the       *)
(* HashFiles call of main had a batch in which some file could not be      *)
(* opened or read while others were hashed, main does not terminate the    *)
(* process at the hashing step: it goes on to the output.                  *)
(***************************************************************************)
C18_PerFileFailureDoesNotStopRun ==
    (CalledFromMain /\ GoodRecords # {} /\ BadRecords # {}) =>
        mainPc # "FatalfHashing"


\* the paths of the rows of an output, in the order of the rows
RECURSIVE RowPaths(_)
RowPaths(lines) ==
    IF lines = <<>> THEN <<>>
    ELSE (IF Head(lines).kind = "row" THEN <<Head(lines).Path>> ELSE <<>>)
         \o RowPaths(Tail(lines))

SortedByPath(paths) ==
    \A i, j \in 1..Len(paths) : i < j => ~ PathLess(paths[j], paths[i])

(***************************************************************************)
(* C19  Deterministic output order, as claimed.  The rows main has         *)
(* printed to the terminal and the rows it has written to the output file  *)
(* are in the order of their paths, in every format and whatever the       *)
(* order in which the workers completed.                                   *)
(***************************************************************************)
C19_OutputSortedByPath ==
    mainPc = "exit" =>
        /\ SortedByPath(RowPaths(stdout))
        /\ SortedByPath(RowPaths(outFile))


(***************************************************************************)
(* C20  File-handle lifetime.  A worker holds an open file handle exactly  *)
(* while it is inside calculateAllHashes past a successful os.Open, and    *)
(* never more than one; the handle is closed on the success path, on the   *)
(* read-failure path and on every other early return, so a worker that is  *)
(* sending an outcome, waiting for work or finished holds none, and no     *)
(* handle is open when HashFiles has returned.                             *)
(***************************************************************************)
C20_FileHandleLifetime ==
    /\ \A w \in Workers :
          /\ worker[w].handles \in {0, 1}
          /\ worker[w].handles = 1 <=> worker[w].pc \in {"copy", "extract"}
    /\ Returned => \A w \in Workers : worker[w].handles = 0

\* a worker has left calculateAllHashes through the read-failure return
\* with its handle closed, while another worker holds the handle of the
\* file it is reading
C20_Witness ==
    \E v, w \in Workers :
        /\ worker[w].pc = "sendErr"
        /\ worker[w].err.kind = "read"
        /\ worker[w].handles = 0
        /\ worker[v].pc = "copy"
        /\ worker[v].handles = 1


(***************************************************************************)
(* Vocabulary of the enumeration claims.                                   *)
(***************************************************************************)
\* entry j is a directory above entry k
Above(entries, j, k) ==
    /\ j < k
    /\ entries[j].depth < entries[k].depth
    /\ \A m \in (j + 1)..k : entries[m].depth > entries[j].depth

\* the walk can get to entry k: no directory above it is unreadable
Discovered(entries, k) ==
    \A j \in 1..Len(entries) : Above(entries, j, k) => entries[j].kind # "dirErr"

\* the subsequence of 1..n of the indices in S, in order
RECURSIVE IndicesIn(_, _)
IndicesIn(S, n) ==
    IF n = 0 THEN <<>>
    ELSE IndicesIn(S, n - 1) \o (IF n \in S THEN <<n>> ELSE <<>>)

\* the paths of the records of a slice, in order
PathsOf(slice) == [i \in 1..Len(slice.elems) |-> slice.elems[i].Path]

\* the paths of the discovered entries of the given kinds among the first
\* n entries, in walk order
DiscoveredPaths(entries, kinds, n) ==
    LET S   == {k \in 1..n : entries[k].kind \in kinds /\ Discovered(entries, k)}
        idx == IndicesIn(S, n)
    IN  [i \in 1..Len(idx) |-> EntryPaths[idx[i]]]

(***************************************************************************)
(* C21  Nonexistent root, as claimed.  When EnumerateFiles has returned    *)
(* from a root that does not exist, the error is non-nil and the file      *)
(* list is nil, and main never goes on to HashFiles.                       *)
(***************************************************************************)
C21_NonexistentRootIsAnError ==
    (walk.pc = "returned" /\ walk.entries[1].kind = "lstatErr") =>
        /\ walk.ret.err # NilError
        /\ walk.ret.files.isNil
        /\ mainPc # "HashFiles"

(***************************************************************************)
(* C22  Per-entry access errors are tolerated.  Whatever entries of the    *)
(* tree cannot be accessed, the walk goes on: the records collected so     *)
(* far are those of all the non-directory entries already passed that the  *)
(* walk could get to, in walk order, and EnumerateFiles returns them all   *)
(* with a nil error.                                                       *)
(***************************************************************************)
C22_PerEntryErrorsTolerated ==
    /\ walk.pc \in {"walk", "returned"}
    /\ walk.err = NilError
    /\ walk.pc = "walk" =>
          PathsOf(walk.files) =
              DiscoveredPaths(walk.entries, {"file", "symlink"}, walk.pos - 1)
    /\ walk.pc = "returned" =>
          /\ walk.ret.err = NilError
          /\ PathsOf(walk.ret.files) =
                 DiscoveredPaths(walk.entries, {"file", "symlink"}, Len(walk.entries))

\* a file before and a file after an entry that could not be accessed were
\* both returned
C22_Witness ==
    /\ walk.pc = "returned"
    /\ \E i, j, k \in 1..Len(walk.entries) :
          /\ i < j /\ j < k
          /\ walk.entries[i].kind = "file"
          /\ walk.entries[j].kind \in {"lstatErr", "dirErr"}
          /\ walk.entries[k].kind = "file"
          /\ EntryPaths[i] \in Range(PathsOf(walk.ret.files))
          /\ EntryPaths[k] \in Range(PathsOf(walk.ret.files))

(***************************************************************************)
(* C23  One record per regular file, as claimed.  When EnumerateFiles has  *)
(* returned, the records are those of the regular files the walk could     *)
(* get to, one each and in walk order, none of a directory or of any       *)
(* other entry; each has its path, its name and its size and an empty      *)
(* digest map; a tree of directories only yields no record and no error.   *)
(***************************************************************************)
C23_OneRecordPerRegularFile ==
    walk.pc = "returned" =>
        /\ PathsOf(walk.ret.files) =
               DiscoveredPaths(walk.entries, {"file"}, Len(walk.entries))
        /\ \A i \in 1..Len(walk.ret.files.elems) :
              LET f == walk.ret.files.elems[i]
              IN  /\ f.FileName = FileInfo(f.Path, FALSE).Name
                  /\ f.Size = FileInfo(f.Path, FALSE).Size
                  /\ f.Hashes = EmptyMap
        /\ (\A k \in 1..Len(walk.entries) : walk.entries[k].kind = "dir") =>
              (walk.ret.files.elems = <<>> /\ walk.ret.err = NilError)

(***************************************************************************)
(* Vocabulary of the properties of ParseArgs.                              *)
(***************************************************************************)
\* ParseArgs has returned args, nil
ParsedOk == parse.pc = "returned" /\ parse.err = NilError

RegistryPairs ==
    {<<GetSupportedAlgorithms[k].ID, GetSupportedAlgorithms[k].Name>> :
        k \in 1..Len(GetSupportedAlgorithms)}

\* names that are not in the registry, among them other spellings
UnregisteredNames ==
    (ArgStrings \cup {"MD5", "Sha1", "sha-256", "sha384", "sha512 "})
        \ {p[2] : p \in RegistryPairs}

UnregisteredIds == (AlgoIds \cup {4, -2}) \ {p[1] : p \in RegistryPairs}

(***************************************************************************)
(* C24  Algorithm registry consistency: StrHashAlgorithmToId,              *)
(* HashAlgorithmValidation, GetSupportedAlgorithms and the hasher          *)
(* selection of calculateAllHashes agree on the four pairs (0,md5),        *)
(* (1,sha1), (2,sha256), (3,sha512): a supported name maps to its id and   *)
(* back to the same name, every such id passes validation and selects the  *)
(* hasher of that name, every other name maps to -1 and every other id is  *)
(* rejected; and so the ids ParseArgs returns are valid and select the     *)
(* hashers of the names given on the command line.                         *)
(***************************************************************************)
C24_RegistryConsistency ==
    /\ RegistryPairs = {<<0, "md5">>, <<1, "sha1">>, <<2, "sha256">>, <<3, "sha512">>}
    /\ \A p \in RegistryPairs :
          /\ StrHashAlgorithmToId(p[2]) = p[1]
          /\ algoNames[StrHashAlgorithmToId(p[2])] = p[2]
          /\ HashAlgorithmValidation(p[1]) = NilError
          /\ SelectHasher(p[1]) = p[2]
          /\ FilterValidAlgos(<<p[1]>>) = <<p[1]>>
    /\ \A name \in UnregisteredNames : StrHashAlgorithmToId(name) = -1
    /\ \A id \in UnregisteredIds :
          /\ HashAlgorithmValidation(id) # NilError
          /\ SelectHasher(id) = "unsupported"
          /\ FilterValidAlgos(<<id>>) = <<>>
    /\ ParsedOk =>
          \A k \in 1..Len(parse.args.HashAlgorithmId) :
              LET id == parse.args.HashAlgorithmId[k]
                  name == parse.args.StrHashAlgorithms[k]
              IN  /\ HashAlgorithmValidation(id) = NilError
                  /\ algoNames[id] = name
                  /\ SelectHasher(id) = name

\* -a md5 sha256 has been parsed
C24_Witness ==
    /\ ParsedOk
    /\ parse.args.StrHashAlgorithms = <<"md5", "sha256">>
    /\ parse.args.HashAlgorithmId = <<0, 2>>

(***************************************************************************)
(* C25  On every successful return of ParseArgs, StrHashAlgorithms and     *)
(* HashAlgorithmId are non-empty and of equal length, and                  *)
(* HashAlgorithmId[k] is the id in 0..3 of StrHashAlgorithms[k]; the names *)
(* are in command-line order: every -a/--algorithm appends the values that *)
(* follow it, in their order, and no other flag touches the lists; when no *)
(* -a has appended a value, the return has md5 / id 0.                     *)
(***************************************************************************)
C25_AlgorithmLists ==
    /\ [](ParsedOk =>
            LET names == parse.args.StrHashAlgorithms
                ids == parse.args.HashAlgorithmId
            IN  /\ Len(names) > 0
                /\ Len(ids) = Len(names)
                /\ \A k \in 1..Len(names) :
                      ids[k] \in 0..3 /\ ids[k] = StrHashAlgorithmToId(names[k]))
    /\ [][ /\ (parse.pc = "loop" /\ parse'.pc = "loop") =>
                IF CurrentArg \in AlgorithmFlags
                THEN parse'.args.StrHashAlgorithms =
                        parse.args.StrHashAlgorithms
                            \o SubSeq(parse.rawArgs, parse.i + 2, parse'.i)
                ELSE /\ parse'.args.StrHashAlgorithms = parse.args.StrHashAlgorithms
                     /\ parse'.args.HashAlgorithmId = parse.args.HashAlgorithmId
           /\ (parse.pc = "loop" /\ parse'.pc = "returned" /\ parse'.err = NilError) =>
                IF parse.args.StrHashAlgorithms = <<>>
                THEN /\ parse'.args.StrHashAlgorithms = <<"md5">>
                     /\ parse'.args.HashAlgorithmId = <<0>>
                ELSE /\ parse'.args.StrHashAlgorithms = parse.args.StrHashAlgorithms
                     /\ parse'.args.HashAlgorithmId = parse.args.HashAlgorithmId
         ]_vars

\* -a without a value has been parsed: the default
C25_Witness ==
    /\ ParsedOk
    /\ parse.rawArgs = <<"-a", "-t">>
    /\ parse.args.StrHashAlgorithms = <<"md5">>
    /\ parse.args.HashAlgorithmId = <<0>>

(***************************************************************************)
(* C26  On every successful return of ParseArgs, WriteToFile is true if    *)
(* and only if an output file was given (StrOutputFile is not empty), and  *)
(* without an output file OutputToTerminal is true, so that at least one   *)
(* of the two outputs is enabled; -t/--terminal enables terminal output,   *)
(* also with an output file: once set it is never reset, and terminal      *)
(* output is enabled at the return only by -t or by the missing output     *)
(* file.                                                                   *)
(***************************************************************************)
C26_OutputSelection ==
    /\ [](ParsedOk =>
            /\ parse.args.WriteToFile <=> parse.args.StrOutputFile # ""
            /\ parse.args.StrOutputFile = "" => parse.args.OutputToTerminal
            /\ parse.args.OutputToTerminal \/ parse.args.WriteToFile)
    /\ [][ /\ parse.args.OutputToTerminal => parse'.args.OutputToTerminal
           /\ (parse.pc = "loop" /\ parse'.pc = "loop") =>
                IF CurrentArg \in {"-t", "--terminal"}
                THEN parse'.args.OutputToTerminal
                ELSE parse'.args.OutputToTerminal = parse.args.OutputToTerminal
           /\ (parse.pc = "loop" /\ parse'.pc = "returned" /\ parse'.err = NilError) =>
                /\ parse'.args.StrOutputFile = parse.args.StrOutputFile
                /\ parse'.args.OutputToTerminal =
                      (parse.args.OutputToTerminal \/ parse.args.StrOutputFile = "")
         ]_vars

\* -o out.csv -t has been parsed: both outputs
C26_Witness ==
    /\ ParsedOk
    /\ parse.rawArgs = <<"-o", "out.csv", "-t">>
    /\ parse.args.StrOutputFile = "out.csv"
    /\ parse.args.WriteToFile
    /\ parse.args.OutputToTerminal

(***************************************************************************)
(* Vocabulary of the channel properties.                                   *)
(***************************************************************************)
\* the channels have been made
ChannelsMade == fileChan # NilChan

\* a send on ch would have to wait for a receiver
WouldBlock(ch) == ~ ch.closed /\ Len(ch.buf) >= ch.cap

\* the goroutines of the workers that have been started
Spawned == 1..spawned

\* ch is closed at most once and only when every worker has signalled
\* completion, no send has met it closed, and it is closed when HashFiles
\* has returned from an accepted batch
ClosedAfterWorkers(ch) ==
    /\ ch.closes <= 1
    /\ ch.closed <=> ch.closes = 1
    /\ ~ ch.sendOnClosed
    /\ ch.closed =>
          /\ wg = 0
          /\ spawned = numWorkers
          /\ \A w \in Spawned : worker[w].pc = "done"
          /\ closer \in {"closeError", "done"}
    /\ (Returned /\ Accepted) => ch.closes = 1

(***************************************************************************)
(* C27  Non-blocking emission: the work queue, the result channel and the  *)
(* error channel have the capacity of the batch size and never hold more   *)
(* items than that; a worker that is to emit a result or an error and the  *)
(* feeder that is to enqueue a record never have to wait; a started worker *)
(* that has not finished can always take a step, unless it is at the head  *)
(* of its loop and the queue is empty and open: it waits for the next work *)
(* item, never for another worker.                                         *)
(***************************************************************************)
C27_NonBlockingEmission ==
    /\ ChannelsMade =>
          /\ fileChan.cap = Len(files)
          /\ resultChan.cap = Len(files)
          /\ errorChan.cap = Len(files)
    /\ Len(fileChan.buf) <= Len(files)
    /\ Len(resultChan.buf) <= Len(files)
    /\ Len(errorChan.buf) <= Len(files)
    /\ Len(resultChan.buf) + Len(errorChan.buf) <= Len(files)
    /\ (feeder.pc = "send" /\ feeder.next <= Len(files)) =>
          ~ WouldBlock(fileChan) /\ ENABLED FeederSend
    /\ \A w \in Spawned :
          /\ worker[w].pc = "sendRes" =>
                ~ WouldBlock(resultChan) /\ ENABLED WorkerSendRes(w)
          /\ worker[w].pc = "sendErr" =>
                ~ WouldBlock(errorChan) /\ ENABLED WorkerSendErr(w)
          /\ worker[w].pc \in {"open", "copy", "extract", "sendRes", "sendErr", "deferred"} =>
                ENABLED WorkerNext(w)
          /\ (worker[w].pc = "range" /\ ~ ENABLED WorkerNext(w)) =>
                fileChan.buf = <<>> /\ ~ fileChan.closed

\* every record of a batch of two has been emitted before HashFiles has
\* received anything: the channels are as full as they get
C27_Witness ==
    /\ Len(files) = 2
    /\ Len(resultChan.buf) + Len(errorChan.buf) = 2
    /\ Len(errorChan.buf) = 1
    /\ result = <<>> /\ errors = <<>>

(***************************************************************************)
(* C28  Work-queue close discipline: the work queue is closed at most      *)
(* once, by the feeder and only after every record of the batch has been   *)
(* enqueued, and it has been closed exactly once when HashFiles returns    *)
(* from an accepted batch; nothing is enqueued after the close and no send *)
(* meets the closed queue; no worker has left its loop while a record is   *)
(* still to be enqueued or still in the queue.                             *)
(***************************************************************************)
C28_WorkQueueCloseDiscipline ==
    /\ [](/\ fileChan.closes <= 1
          /\ fileChan.closed <=> fileChan.closes = 1
          /\ ~ fileChan.sendOnClosed
          /\ fileChan.closed => feeder.pc = "done" /\ feeder.next = Len(files) + 1
          /\ (Returned /\ Accepted) => fileChan.closes = 1
          /\ \A w \in Workers :
                worker[w].pc \in {"deferred", "done"} =>
                    /\ feeder.next = Len(files) + 1
                    /\ fileChan.buf = <<>>
                    /\ fileChan.closed)
    /\ [][ /\ fileChan.closed =>
                /\ fileChan'.closed
                /\ Len(fileChan'.buf) <= Len(fileChan.buf)
                /\ feeder' = feeder
           /\ fileChan'.closes # fileChan.closes =>
                /\ feeder.pc = "send" /\ feeder'.pc = "done"
                /\ feeder.next = Len(files) + 1
         ]_vars

\* the queue has been closed while it still holds a record and a worker
\* is in its loop
C28_Witness ==
    /\ fileChan.closed
    /\ Len(fileChan.buf) = 1
    /\ \E w \in Workers : worker[w].pc = "copy"

(***************************************************************************)
(* C29  Result-channel close discipline: the result channel and the error  *)
(* channel are each closed at most once, by the closer goroutine and only  *)
(* after every worker has performed its last send and signalled            *)
(* completion, and each has been closed exactly once when HashFiles        *)
(* returns from an accepted batch; no send meets a closed channel and no   *)
(* channel is closed twice.                                                *)
(***************************************************************************)
C29_ResultCloseDiscipline ==
    /\ [](ClosedAfterWorkers(resultChan) /\ ClosedAfterWorkers(errorChan))
    /\ [][ /\ resultChan'.closes # resultChan.closes =>
                closer = "closeResult" /\ closer' = "closeError"
           /\ errorChan'.closes # errorChan.closes =>
                closer = "closeError" /\ closer' = "done"
           /\ resultChan.closed => resultChan'.closed
           /\ errorChan.closed => errorChan'.closed
           /\ \A w \in Workers :
                (worker[w].pc \in {"sendRes", "sendErr"} /\ worker'[w] # worker[w]) =>
                    ~ resultChan.closed /\ ~ errorChan.closed
         ]_vars

\* both channels have been closed after two workers have each sent
C29_Witness ==
    /\ resultChan.closed /\ errorChan.closed
    /\ numWorkers = 2
    /\ Len(resultChan.buf) + Len(result) >= 1
    /\ Len(errorChan.buf) + Len(errors) >= 1

(***************************************************************************)
(* C30  Read-only shared state: the caller's input slice and algorithm     *)
(* list never change; the filtered id list and the name list are written   *)
(* by HashFiles alone, before it starts a worker; no record's path, name,  *)
(* size or modification time ever changes; a digest map changes only in    *)
(* the step in which a worker extracts the digests, and it is the map of   *)
(* the record that worker holds, which no other worker holds.              *)
(***************************************************************************)
C30_ReadOnlySharedState ==
    [][ /\ files' = files
        /\ hashAlgos' = hashAlgos
        /\ (validAlgos' # validAlgos \/ algoNamesList' # algoNamesList) =>
              pc = "entry" /\ spawned = 0
        /\ Len(recs') = Len(recs)
        /\ \A i \in 1..Len(recs) :
              /\ recs'[i].Path = recs[i].Path
              /\ recs'[i].FileName = recs[i].FileName
              /\ recs'[i].Size = recs[i].Size
              /\ recs'[i].ModTime = recs[i].ModTime
              /\ recs'[i].Hashes # recs[i].Hashes =>
                    \E w \in Workers :
                        /\ worker[w].file = i
                        /\ worker[w].pc = "extract"
                        /\ worker'[w].pc = "sendRes"
                        /\ \A v \in Workers \ {w} :
                              worker[v].file # i /\ worker'[v] = worker[v]
      ]_vars

\* a worker has written the digests of the second record while another
\* worker is reading the first, whose digest map is still empty
C30_Witness ==
    /\ Len(files) = 2
    /\ \E w, v \in Workers :
          /\ worker[w].file = 2 /\ worker[w].pc = "sendRes"
          /\ recs[2].Hashes # EmptyMap
          /\ worker[v].file = 1 /\ worker[v].pc = "copy"
          /\ recs[1].Hashes = EmptyMap

(***************************************************************************)
(* C31  Empty-batch check precedes algorithm validation: a call with an    *)
(* empty batch returns a nil error for every algorithm list, the empty     *)
(* list and lists of only unsupported ids included, and returns before the *)
(* list is filtered; the error of having no valid algorithm is returned    *)
(* for non-empty batches only, and there exactly when the list holds no    *)
(* supported id.                                                           *)
(***************************************************************************)
C31_EmptyCheckPrecedesValidation ==
    /\ (Returned /\ Len(files) = 0) =>
          /\ ret.err = NilError
          /\ validAlgos = <<>>
          /\ algoNamesList = <<>>
    /\ ret.err = Errorf("novalid", "") => (Len(files) # 0 /\ NoSupportedId)
    /\ (Returned /\ Len(files) # 0) =>
          (ret.err = Errorf("novalid", "") <=> NoSupportedId)

\* an empty batch has returned a nil error for the empty algorithm list
C31_Witness ==
    /\ Returned
    /\ Len(files) = 0
    /\ hashAlgos = <<>>
    /\ ret.err = NilError

(***************************************************************************)
(* C32  Every record yields exactly one outcome, as claimed: no record,    *)
(* one made with a nil digest map included, stops its worker or the batch; *)
(* every record a worker has finished with has been emitted exactly once,  *)
(* on the result channel or as an error on the error channel, and the      *)
(* worker is back in its loop.                                             *)
(***************************************************************************)
Finished ==
    {i \in Batch : delivered[i] >= 1 /\ \A w \in Workers : worker[w].file # i}

Emitted(i) ==
    Cardinality({k \in 1..Len(resultChan.buf) : resultChan.buf[k] = i})
        + Cardinality({k \in 1..Len(result) : result[k] = i})

C32_ExactlyOneOutcome ==
    /\ pc # "panicked"
    /\ \A w \in Workers : worker[w].pc # "panicked"
    /\ \A i \in Batch : Emitted(i) <= 1
    /\ \A i \in Batch \ Finished : Emitted(i) = 0
    /\ Len(resultChan.buf) + Len(result) + Len(errorChan.buf) + Len(errors)
          = Cardinality(Finished)

(***************************************************************************)
(* C33  ParseArgs is total, as claimed: for every list of argument         *)
(* strings, empty strings included, ParseArgs is in its loop or has        *)
(* returned, with the parsed Args or with an error; it never panics on an  *)
(* index outside the argument list or outside an argument string, its      *)
(* index stays within the list, and no iteration of the loop leaves the    *)
(* index where it was or moves it back.                                    *)
(***************************************************************************)
C33_ParseArgsTotal ==
    /\ parse.pc \in {"loop", "returned"}
    /\ mainPc # "panic"
    /\ parse.i \in 0..Len(parse.rawArgs)
    /\ parse.pc = "returned" => (parse.err # NilError \/ parse.i = Len(parse.rawArgs))
    /\ ~ ENABLED (ArgsNext /\ parse.pc = "loop" /\ parse'.pc = "loop"
                           /\ parse'.i <= parse.i)

(***************************************************************************)
(* C34  Unique YARA string identifiers, as claimed: for every non-empty    *)
(* list of hashed files, files that share a base name or differ only in    *)
(* extension or in sanitised characters included, the identifiers of the   *)
(* strings of the rule GenerateYaraRule or GenerateYaraRuleFromHashes has  *)
(* returned are pairwise distinct.                                         *)
(***************************************************************************)
C34_UniqueStringIdentifiers ==
    (yara.pc = "returned" /\ yara.err = NilError) =>
        NoDuplicates([k \in 1..Len(yara.rule.Strings) |-> yara.rule.Strings[k].Name])

(***************************************************************************)
(* C35  Help short-circuit, as claimed: whenever ParseArgs has met the     *)
(* help flag on the command line, the process is still in init or has      *)
(* printed the help text and exited with status 0; it has not ended in     *)
(* another way and has not gone on to main, and at the exit nothing has    *)
(* been enumerated, hashed or written.                                     *)
(***************************************************************************)
C35_HelpShortCircuit ==
    /\ parse.args.Help => mainPc \in {"init", "ExitHelp"}
    /\ mainPc = "ExitHelp" =>
          /\ parse.args.Help
          /\ stdout = <<HelpText>>
          /\ outFile = <<>>
          /\ walk = NoWalk
          /\ pc = "uncalled"

=============================================================================
